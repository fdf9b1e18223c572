------------------------- MODULE RunnerSupervision -------------------------
(***************************************************************************)
(* How d2bd supervises the runners the broker spawns for it.                *)
(*                                                                         *)
(* The daemon keeps a table of runner processes, persists it as one file   *)
(* after every change, keeps one more snapshot file per runner for adoption *)
(* after a restart, and learns of exits by polling the broker into its      *)
(* BrokerReapLog.  The operation locks (module OpLocks) let one operation   *)
(* per VM run at a time, so there is one thread per runner id here and the  *)
(* threads of different VMs interleave; what they share is the table, the   *)
(* files, the reap log, the mutation guard of the table, and the broker.    *)
(* Each VM has one tracked role.                                            *)
(*                                                                         *)
(* The per-env usbipd runners (EnvRunner) are started from usbip binds by   *)
(* another code path, which registers without the mutation guard.           *)
(***************************************************************************)
EXTENDS RunnerBroker

CONSTANTS
    EnvRunner,      \* runner ids started by BrokerPerEnvUsbipdSpawner
    MaxCrashes      \* bound: crashes or restarts of the daemon

ASSUME SupervisionAssumption == EnvRunner \subseteq Runner /\ MaxCrashes \in Nat

VARIABLES
    up,         \* "down", "adopt" (startup reconciliation) or "up"
    crashes,    \* crashes of the daemon so far
    adopting,   \* runner snapshots still to be reconciled at startup
    table,      \* PidfdTable.entries
    disk,       \* pidfd-table.json
    snapDisk,   \* the runner snapshot files
    guard,      \* holder of PidfdTable.mutation_lock
    log,        \* BrokerReapLog: runner id by pid
    pc,         \* where each runner's thread is
    mine,       \* the process the thread spawned, or is stopping
    phase,      \* signal of the stop ladder
    copy,       \* table copied by PidfdTable::snapshot and not yet written
    dead        \* entries each thread's prune found dead

fileVars == <<disk, snapDisk>>
lifeVars == <<up, crashes, adopting>>
daemonVars == <<lifeVars, table, fileVars, guard, log, pc, mine, phase, copy, dead>>
vars == <<brokerVars, daemonVars>>

Table == [Runner -> Inst \union {None}]
Empty == [r \in Runner |-> None]

PC == {"idle", "prune", "pruneDrop", "pruneWrite", "check", "spawn", "spawning",
       "register", "registerWrite", "runnerSnapshot", "cleanup", "cleanupWrite", "unregistered",
       "unregisteredOpen", "unregisteredWait", "finishUnregistered", "ready",
       "signal", "brokerSignal", "brokerOpen", "refresh", "wait", "poll",
       "finish", "finishBroker", "finishSnapshot", "final", "finalWrite",
       "adoptOpen", "adoptVerify"}

\* The type invariant of the daemon's side.
SupervisionTypeOK ==
    /\ up \in {"down", "adopt", "up"}
    /\ crashes \in 0..MaxCrashes
    /\ adopting \subseteq Runner
    /\ table \in Table /\ disk \in Table /\ snapDisk \in Table
    /\ guard \in Runner \union {None}
    /\ log \in [Pid -> Runner \union {None}]
    /\ pc \in [Runner -> PC]
    /\ mine \in Table
    /\ phase \in [Runner -> {"term", "kill"}]
    /\ copy \in [Runner -> Table]
    /\ dead \in [Runner -> SUBSET Runner]

Init ==
    /\ BrokerInit
    /\ up = "up" /\ crashes = 0 /\ adopting = {}
    /\ table = Empty /\ disk = Empty /\ snapDisk = Empty
    /\ guard = None
    /\ log = [p \in Pid |-> None]
    /\ pc = [r \in Runner |-> "idle"]
    /\ mine = Empty
    /\ phase = [r \in Runner |-> "term"]
    /\ copy = [r \in Runner |-> Empty]
    /\ dead = [r \in Runner |-> {}]
-----------------------------------------------------------------------------
Removed(t, r) == [t EXCEPT ![r] = None]

\* A step of r's thread from one program point to another.
Goto(r, from, to) ==
    /\ up = "up"
    /\ pc[r] = from
    /\ pc' = [pc EXCEPT ![r] = to]
    /\ UNCHANGED lifeVars

\* The same for a step that leaves the locals alone; they end with the operation.
Step(r, from, to) ==
    /\ Goto(r, from, to)
    /\ mine' = IF to = "idle" THEN Removed(mine, r) ELSE mine
    /\ phase' = IF to = "idle" THEN [phase EXCEPT ![r] = "term"] ELSE phase

\* The thread of r takes the mutation guard, changes the table to t and copies
\* it for the file (PidfdTable::snapshot under the guard).
Snapshotting(r, t) ==
    /\ guard = None
    /\ guard' = r
    /\ table' = t
    /\ copy' = [copy EXCEPT ![r] = t]

\* write_snapshot renames the new file into place or fails and leaves the old.
Written(r) == disk' = copy[r] /\ copy' = [copy EXCEPT ![r] = Empty]
WriteFails(r) == "io" \in Faults /\ disk' = disk /\ copy' = [copy EXCEPT ![r] = Empty]

\* BrokerReapLog::insert of a batch: keyed by pid, the last one wins.
Inserted(batch) ==
    [p \in Pid |->
        LET of == {k \in DOMAIN batch : batch[k].pid = p}
        IN IF of = {} THEN log[p] ELSE batch[CHOOSE k \in of : \A j \in of : j <= k].id]

\* The broker cannot be reached, or does not answer in time.
RpcFails == "rpc" \in Faults /\ UNCHANGED brokerVars

\* The answer to r's OpenPidfd or SignalRunner: ok, or an error of the broker, a
\* timeout, or a connection closed by a restart of the broker.
OpenSucceeds(r) == sid = r /\ OpenVerified
OpenFails(r) == (sid = r /\ OpenRaced) \/ (sid # r /\ UNCHANGED brokerVars) \/ RpcFails

\* A PollChildReaped whose answer does not arrive: the broker may still serve the
\* request later, and the notifications it drains are lost.
PollLost == RpcFails \/ ("rpc" \in Faults /\ PollChildReaped)

\* poll_broker_child_reaped, or its failure.
Polled(l) ==
    \/ PollChildReaped /\ l = Inserted(buffer)
    \/ PollLost /\ l = log
-----------------------------------------------------------------------------
\* dispatch_broker_vm_start, up to SpawnRunner.

StartVm(r) ==
    /\ Step(r, "idle", "prune")
    /\ UNCHANGED <<brokerVars, table, fileVars, guard, log, copy, dead>>

\* The entries whose process has exited, by /proc.
Stale == {q \in Runner : table[q] # None /\ ~Alive(table[q])}

\* Mutant: prune_dead_entries without the mutation guard.
PruneScanUnguarded(r) ==
    /\ dead' = [dead EXCEPT ![r] = Stale]
    /\ Step(r, "prune", IF Stale = {} THEN "check" ELSE "pruneDrop")
    /\ UNCHANGED <<brokerVars, table, fileVars, guard, log, copy>>

\* prune_dead_entries: read lock, compare every entry with /proc.
PruneScan(r) ==
    /\ guard = None
    /\ dead' = [dead EXCEPT ![r] = Stale]
    /\ guard' = IF Stale = {} THEN None ELSE r
    /\ Step(r, "prune", IF Stale = {} THEN "check" ELSE "pruneDrop")
    /\ UNCHANGED <<brokerVars, table, fileVars, log, copy>>

\* prune_dead_entries: write lock, remove by key, copy for the snapshot.
PruneDrop(r) ==
    /\ Step(r, "pruneDrop", "pruneWrite")
    /\ table' = [q \in Runner |-> IF q \in dead[r] THEN None ELSE table[q]]
    /\ copy' = [copy EXCEPT ![r] = table']
    /\ dead' = [dead EXCEPT ![r] = {}]
    /\ UNCHANGED <<brokerVars, fileVars, guard, log>>

\* A failed prune is logged and the start proceeds.
PruneWrite(r) ==
    /\ Step(r, "pruneWrite", "check")
    /\ Written(r) \/ WriteFails(r)
    /\ guard' = None
    /\ UNCHANGED <<brokerVars, table, snapDisk, log, dead>>

\* A registered runner ends the start: "already running".
CheckDuplicate(r) ==
    /\ Step(r, "check", IF table[r] = None THEN "spawn" ELSE "idle")
    /\ UNCHANGED <<brokerVars, table, fileVars, guard, log, copy, dead>>

SpawnRequest(r) ==
    /\ Step(r, "spawn", "spawning")
    /\ SpawnReserve(r)
    /\ UNCHANGED <<table, fileVars, guard, log, copy, dead>>

\* The broker refuses a duplicate id, or cannot be reached.
SpawnRefused(r) ==
    /\ Step(r, "spawn", "idle")
    /\ (registry[r] # None /\ UNCHANGED brokerVars) \/ RpcFails
    /\ UNCHANGED <<table, fileVars, guard, log, copy, dead>>

\* The response, with the pidfd of the new process, arrives.
SpawnReply(r) ==
    /\ spc = "reply" /\ sid = r
    /\ Goto(r, "spawning", "register")
    /\ mine' = [mine EXCEPT ![r] = sinst]
    /\ SpawnDone
    /\ UNCHANGED <<table, fileVars, guard, log, phase, copy, dead>>

\* The broker answers with an error: of the spawn, or of writing its audit record
\* when the child is already registered.
SpawnError(r) ==
    /\ spc = "failed" \/ ("spawn" \in Faults /\ spc = "reply")
    /\ sid = r
    /\ Step(r, "spawning", "idle")
    /\ SpawnDone
    /\ UNCHANGED <<table, fileVars, guard, log, copy, dead>>

\* The read times out while the broker is still at work, or the connection is
\* closed by a broker that restarted.
SpawnTimeout(r) ==
    /\ Step(r, "spawning", "idle")
    /\ RpcFails \/ (sid # r /\ UNCHANGED brokerVars)
    /\ UNCHANGED <<table, fileVars, guard, log, copy, dead>>

\* The broker finishes a request nobody waits for.
Unheard ==
    /\ \/ SpawnDone /\ pc[sid] # "spawning"
       \/ /\ OpenVerified \/ OpenRaced
          /\ pc[sid] \notin {"unregisteredOpen", "brokerOpen", "adoptVerify"}
    /\ UNCHANGED daemonVars
-----------------------------------------------------------------------------
\* register_node_pidfd and, for per-env runners, BrokerPerEnvUsbipdSpawner.

\* Mutant: register and snapshot without the guard, as the env spawner does.
RegisterEntryUnguarded(r) ==
    /\ r \notin EnvRunner
    /\ table' = [table EXCEPT ![r] = mine[r]]
    /\ copy' = [copy EXCEPT ![r] = table']
    /\ Step(r, "register", "registerWrite")
    /\ UNCHANGED <<brokerVars, fileVars, guard, log, dead>>

\* PidfdTable::register and the copy of the table, under the guard.
RegisterEntry(r) ==
    /\ r \notin EnvRunner
    /\ table[r] = None
    /\ Snapshotting(r, [table EXCEPT ![r] = mine[r]])
    /\ Step(r, "register", "registerWrite")
    /\ UNCHANGED <<brokerVars, fileVars, log, dead>>

\* The env spawner's register and copy take no guard.
RegisterEnvEntry(r) ==
    /\ r \in EnvRunner
    /\ table[r] = None
    /\ table' = [table EXCEPT ![r] = mine[r]]
    /\ copy' = [copy EXCEPT ![r] = table']
    /\ Step(r, "register", "registerWrite")
    /\ UNCHANGED <<brokerVars, fileVars, guard, log, dead>>

\* Where a failed registration goes: spawn_runner stops the process it cannot
\* supervise, the env spawner only reports the failure.
Abandon(r) == IF r \in EnvRunner THEN "idle" ELSE "unregistered"

\* The pidfd cannot be duplicated.
RegisterFails(r) ==
    /\ "io" \in Faults
    /\ Step(r, "register", Abandon(r))
    /\ UNCHANGED <<brokerVars, table, fileVars, guard, log, copy, dead>>

\* Mutant: the guard is still held when cleanup_vm_start_registration takes it.
RegisterWriteGuarded(r) ==
    /\ Step(r, "registerWrite", "runnerSnapshot")
    /\ Written(r)
    /\ UNCHANGED <<brokerVars, table, snapDisk, guard, log, dead>>

\* The guard is dropped once the table is on disk.
RegisterWrite(r) ==
    /\ Step(r, "registerWrite", "runnerSnapshot")
    /\ Written(r)
    /\ guard' = IF r \in EnvRunner THEN guard ELSE None
    /\ UNCHANGED <<brokerVars, table, snapDisk, log, dead>>

\* The snapshot fails: the entry is taken out again.
RegisterWriteFails(r) ==
    /\ Step(r, "registerWrite", Abandon(r))
    /\ WriteFails(r)
    /\ table' = Removed(table, r)
    /\ guard' = IF r \in EnvRunner THEN guard ELSE None
    /\ UNCHANGED <<brokerVars, snapDisk, log, dead>>

\* Mutant: the runner snapshot is left to the next change of the table.
RunnerSnapshotSkipped(r) ==
    /\ Step(r, "runnerSnapshot", IF r \in EnvRunner THEN "idle" ELSE "ready")
    /\ UNCHANGED <<brokerVars, table, fileVars, guard, log, copy, dead>>

\* write_runner_snapshot, after the guard is dropped.
WriteRunnerSnapshot(r) ==
    /\ Step(r, "runnerSnapshot", IF r \in EnvRunner THEN "idle" ELSE "ready")
    /\ snapDisk' = [snapDisk EXCEPT ![r] = mine[r]]
    /\ UNCHANGED <<brokerVars, table, disk, guard, log, copy, dead>>

RunnerSnapshotFails(r) ==
    /\ "io" \in Faults
    /\ Step(r, "runnerSnapshot", "cleanup")
    /\ UNCHANGED <<brokerVars, table, fileVars, guard, log, copy, dead>>

\* cleanup_vm_start_registration: deregister and snapshot under the guard,
\* then remove the runner snapshot.
CleanupEntry(r) ==
    /\ Snapshotting(r, Removed(table, r))
    /\ Step(r, "cleanup", "cleanupWrite")
    /\ UNCHANGED <<brokerVars, fileVars, log, dead>>

CleanupWrite(r) ==
    /\ Step(r, "cleanupWrite", Abandon(r))
    /\ Written(r) \/ WriteFails(r)
    /\ snapDisk' = Removed(snapDisk, r)
    /\ guard' = None
    /\ UNCHANGED <<brokerVars, table, log, dead>>

\* BrokerReapLog::take_for: some notification of r, whatever its pid.
TakeFor(l, r) == {p \in Pid : l[p] = r}

\* stop_unregistered_spawned_runner: SIGTERM and a wait, then SIGKILL and a wait.
\* The signal is sent directly or to the pidfd the broker holds, or not at all
\* because the pid is free or the broker does not answer,
StopUnregisteredSignal(r) ==
    /\ Step(r, "unregistered", "unregisteredWait")
    /\ \/ Exists(mine[r])
       \/ Serving /\ (registry[r] # None \/ st[mine[r].pid] = "none")
       \/ "rpc" \in Faults
    /\ UNCHANGED <<brokerVars, table, fileVars, guard, log, copy, dead>>

\* or the broker opens a pidfd it does not hold.
StopUnregisteredOpen(r) ==
    /\ registry[r] = None
    /\ Step(r, "unregistered", "unregisteredOpen")
    /\ OpenPidfd(r, mine[r])
    /\ UNCHANGED <<table, fileVars, guard, log, copy, dead>>

StopUnregisteredOpened(r) ==
    /\ Step(r, "unregisteredOpen", "unregisteredWait")
    /\ OpenSucceeds(r) \/ OpenFails(r)
    /\ UNCHANGED <<table, fileVars, guard, log, copy, dead>>

\* The wait polls the broker until a notification of r turns up,
StopUnregisteredPoll(r) ==
    /\ Step(r, "unregisteredWait", "unregisteredWait")
    /\ Polled(log')
    /\ TakeFor(log', r) = {}
    /\ UNCHANGED <<table, fileVars, guard, copy, dead>>

StopUnregisteredReaped(r) ==
    /\ Step(r, "unregisteredWait", "finishUnregistered")
    /\ \E l \in {log, Inserted(buffer)} : \E p \in TakeFor(l, r) :
        /\ Polled(l)
        /\ log' = [l EXCEPT ![p] = None]
    /\ UNCHANGED <<table, fileVars, guard, copy, dead>>

FinishUnregistered(r) ==
    /\ Step(r, "finishUnregistered", "idle")
    /\ Deregister(r) \/ RpcFails
    /\ UNCHANGED <<table, fileVars, guard, log, copy, dead>>

\* or the deadline has passed after one more poll.
StopUnregisteredEscalates(r) ==
    /\ phase[r] = "term"
    /\ Goto(r, "unregisteredWait", "unregistered")
    /\ phase' = [phase EXCEPT ![r] = "kill"]
    /\ Polled(log')
    /\ TakeFor(log', r) = {}
    /\ UNCHANGED <<table, fileVars, guard, mine, copy, dead>>

StopUnregisteredGivesUp(r) ==
    /\ phase[r] = "kill"
    /\ Step(r, "unregisteredWait", "idle")
    /\ Polled(log')
    /\ TakeFor(log', r) = {}
    /\ UNCHANGED <<table, fileVars, guard, copy, dead>>

\* The rest of the start succeeds, or fails and rolls the runner back.
StartReady(r) ==
    /\ Step(r, "ready", "idle")
    /\ UNCHANGED <<brokerVars, table, fileVars, guard, log, copy, dead>>

StartRollback(r) ==
    /\ Step(r, "ready", "signal")
    /\ UNCHANGED <<brokerVars, table, fileVars, guard, log, copy, dead>>
-----------------------------------------------------------------------------
\* dispatch_broker_vm_stop: the ladder of stop_vm_pidfd_role.

StopVm(r) ==
    /\ r \notin EnvRunner
    /\ table[r] # None
    /\ Goto(r, "idle", "signal")
    /\ mine' = [mine EXCEPT ![r] = table[r]]
    /\ UNCHANGED <<brokerVars, table, fileVars, guard, log, phase, copy, dead>>

\* PidfdTable::signal: sent, or not permitted on a process that is still there.
Signal(r) ==
    /\ table[r] # None
    /\ \/ Step(r, "signal", "refresh")
       \/ Exists(table[r]) /\ Step(r, "signal", "brokerSignal")
    /\ UNCHANGED <<brokerVars, table, fileVars, guard, log, copy, dead>>

\* The entry is gone, pruned by another thread: the operation returns NotFound.
SignalNotFound(r) ==
    /\ table[r] = None
    /\ Step(r, "signal", "idle")
    /\ UNCHANGED <<brokerVars, table, fileVars, guard, log, copy, dead>>

\* signal_via_broker: the broker signals the pidfd it holds, or opens one for the
\* process of the daemon's entry first.
SignalViaBroker(r) ==
    /\ \/ /\ Serving /\ Exists(registry[r])
          /\ Step(r, "brokerSignal", "refresh")
          /\ UNCHANGED brokerVars
       \/ /\ registry[r] = None /\ table[r] # None
          /\ Step(r, "brokerSignal", "brokerOpen")
          /\ OpenPidfd(r, table[r])
    /\ UNCHANGED <<table, fileVars, guard, log, copy, dead>>

\* The broker holds the pidfd of a process that is gone, has none and can open
\* none, or does not answer: the operation returns, without a final snapshot.
SignalViaBrokerFails(r) ==
    /\ Step(r, "brokerSignal", "idle")
    /\ \/ /\ Serving /\ ~Exists(registry[r])
          /\ (registry[r] = None /\ table[r] # None) => st[table[r].pid] = "none"
          /\ UNCHANGED brokerVars
       \/ RpcFails
    /\ UNCHANGED <<table, fileVars, guard, log, copy, dead>>

\* The pidfd is open and signalled, unless the process has gone by then.
SignalOpened(r) ==
    /\ \/ OpenSucceeds(r) /\ Step(r, "brokerOpen", IF Exists(sinst) THEN "refresh" ELSE "idle")
       \/ OpenFails(r) /\ Step(r, "brokerOpen", "idle")
    /\ UNCHANGED <<table, fileVars, guard, log, copy, dead>>

\* refresh_broker_reap_log before the wait.
RefreshReapLog(r) ==
    /\ Step(r, "refresh", "wait")
    /\ Polled(log')
    /\ UNCHANGED <<table, fileVars, guard, copy, dead>>

\* PidfdTable::wait_terminated.  The daemon is not the runner's parent, so
\* waitid says ECHILD: the reap log decides by pid, then /proc.
WaitReapLog(r) ==
    /\ table[r] # None /\ log[table[r].pid] # None
    /\ Step(r, "wait", "finish")
    /\ log' = [log EXCEPT ![table[r].pid] = None]
    /\ table' = Removed(table, r)
    /\ UNCHANGED <<brokerVars, fileVars, guard, copy, dead>>

WaitGone(r) ==
    /\ table[r] # None /\ log[table[r].pid] = None /\ ~Alive(table[r])
    /\ Step(r, "wait", "finish")
    /\ table' = Removed(table, r)
    /\ UNCHANGED <<brokerVars, fileVars, guard, log, copy, dead>>

WaitAlive(r) ==
    /\ table[r] # None /\ log[table[r].pid] = None /\ Alive(table[r])
    /\ Step(r, "wait", "poll")
    /\ UNCHANGED <<brokerVars, table, fileVars, guard, log, copy, dead>>

\* The entry is gone, pruned by another thread: the operation returns NotFound.
WaitNotFound(r) ==
    /\ table[r] = None
    /\ Step(r, "wait", "idle")
    /\ UNCHANGED <<brokerVars, table, fileVars, guard, log, copy, dead>>

\* wait_terminated_with_broker_poll after ECHILD: gone after all,
PollGone(r) ==
    /\ table[r] = None \/ ~Alive(table[r])
    /\ Step(r, "poll", "finish")
    /\ UNCHANGED <<brokerVars, table, fileVars, guard, log, copy, dead>>

\* or the broker is polled and a notification of r ends the wait,
PollReaped(r) ==
    /\ table[r] # None
    /\ Step(r, "poll", "finish")
    /\ PollChildReaped
    /\ \E p \in TakeFor(Inserted(buffer), r) :
        log' = [Inserted(buffer) EXCEPT ![p] = None]
    /\ UNCHANGED <<table, fileVars, guard, copy, dead>>

\* or the loop goes round.
PollAgain(r) ==
    /\ table[r] # None
    /\ Step(r, "poll", "wait")
    /\ \/ PollChildReaped /\ log' = Inserted(buffer) /\ TakeFor(log', r) = {}
       \/ PollLost /\ UNCHANGED log
    /\ UNCHANGED <<table, fileVars, guard, copy, dead>>

\* The deadline passes: SIGTERM is followed by SIGKILL, SIGKILL by an error.
TermTimeout(r) ==
    /\ phase[r] = "term"
    /\ Goto(r, "wait", "signal")
    /\ phase' = [phase EXCEPT ![r] = "kill"]
    /\ UNCHANGED <<brokerVars, table, fileVars, guard, log, mine, copy, dead>>

KillTimeout(r) ==
    /\ phase[r] = "kill"
    /\ Step(r, "wait", "idle")
    /\ UNCHANGED <<brokerVars, table, fileVars, guard, log, copy, dead>>

\* finish_terminated_runner: table, broker, runner snapshot.
FinishEntry(r) ==
    /\ Step(r, "finish", "finishBroker")
    /\ table' = Removed(table, r)
    /\ UNCHANGED <<brokerVars, fileVars, guard, log, copy, dead>>

FinishBroker(r) ==
    /\ Step(r, "finishBroker", "finishSnapshot")
    /\ Deregister(r) \/ RpcFails
    /\ UNCHANGED <<table, fileVars, guard, log, copy, dead>>

FinishSnapshot(r) ==
    /\ Step(r, "finishSnapshot", "final")
    /\ snapDisk' = Removed(snapDisk, r) \/ ("io" \in Faults /\ UNCHANGED snapDisk)
    /\ UNCHANGED <<brokerVars, table, disk, guard, log, copy, dead>>

\* The final snapshot of the stop, or of the rollback.
FinalSnapshot(r) ==
    /\ Snapshotting(r, table)
    /\ Step(r, "final", "finalWrite")
    /\ UNCHANGED <<brokerVars, fileVars, log, dead>>

FinalWrite(r) ==
    /\ Step(r, "finalWrite", "idle")
    /\ Written(r) \/ WriteFails(r)
    /\ guard' = None
    /\ UNCHANGED <<brokerVars, table, snapDisk, log, dead>>
-----------------------------------------------------------------------------
\* Crash and restart of the daemon.  The runners live on.

Crash ==
    /\ up # "down" /\ crashes < MaxCrashes
    /\ up' = "down" /\ crashes' = crashes + 1 /\ adopting' = {}
    /\ table' = Empty /\ guard' = None
    /\ log' = [p \in Pid |-> None]
    /\ pc' = [r \in Runner |-> "idle"]
    /\ mine' = Empty
    /\ phase' = [r \in Runner |-> "term"]
    /\ copy' = [r \in Runner |-> Empty]
    /\ dead' = [r \in Runner |-> {}]
    /\ UNCHANGED <<brokerVars, fileVars>>

\* Mutant: a persisted entry is reopened without comparing start times.
ReopensAnyStart(i) ==
    i # None /\ st[i.pid] = "running"

\* reopen_persisted_entry: the pid can be opened, is no zombie, and has the
\* recorded start time.
Reopens(i) ==
    i # None /\ st[i.pid] = "running" /\ start[i.pid] = i.start

\* PidfdTable::restore_from_disk keeps the entries it can reopen, where the
\* daemon is permitted to, and rewrites the file when it
\* dropped one; then the reap log is refreshed.
Restore ==
    /\ up = "down"
    /\ up' = "adopt"
    /\ adopting' = {r \in Runner : snapDisk[r] # None}
    /\ \E reopened \in SUBSET {r \in Runner : Reopens(disk[r])} :
        table' = [r \in Runner |-> IF r \in reopened
                                  THEN [pid |-> disk[r].pid, start |-> start[disk[r].pid]]
                                  ELSE None]
    /\ disk' = table'
    /\ Polled(log')
    /\ UNCHANGED <<crashes, snapDisk, guard, pc, mine, phase, copy, dead>>

\* reconcile: a snapshot whose pid has the recorded start time is to be adopted,
AdoptClassify(r) ==
    /\ up = "adopt" /\ r \in adopting /\ pc[r] = "idle"
    /\ Exists(snapDisk[r])
    /\ pc' = [pc EXCEPT ![r] = "adoptOpen"]
    /\ UNCHANGED <<brokerVars, lifeVars, table, fileVars, guard, log, mine, phase, copy, dead>>

\* a pid that is free takes the snapshot file with it,
AdoptMissing(r) ==
    /\ up = "adopt" /\ r \in adopting /\ pc[r] = "idle"
    /\ adopting' = adopting \ {r}
    /\ st[snapDisk[r].pid] = "none"
    /\ snapDisk' = Removed(snapDisk, r)
    /\ UNCHANGED <<brokerVars, up, crashes, table, disk, guard, log, pc, mine, phase, copy, dead>>

\* and a reused pid is quarantined: the file stays.
AdoptQuarantine(r) ==
    /\ up = "adopt" /\ r \in adopting /\ pc[r] = "idle"
    /\ adopting' = adopting \ {r}
    /\ st[snapDisk[r].pid] # "none" /\ ~Exists(snapDisk[r])
    /\ UNCHANGED <<brokerVars, up, crashes, table, fileVars, guard, log, pc, mine, phase, copy, dead>>

\* The broker is asked for a pidfd.
AdoptOpen(r) ==
    /\ pc[r] = "adoptOpen"
    /\ OpenPidfd(r, snapDisk[r])
    /\ pc' = [pc EXCEPT ![r] = "adoptVerify"]
    /\ UNCHANGED <<lifeVars, table, fileVars, guard, log, mine, phase, copy, dead>>

\* Mutant: the reopened pidfd is dropped, as if the table always had the runner.
AdoptUnregistered(r) ==
    /\ pc[r] = "adoptVerify"
    /\ OpenSucceeds(r)
    /\ pc' = [pc EXCEPT ![r] = "idle"] /\ adopting' = adopting \ {r}
    /\ UNCHANGED <<up, crashes, table, fileVars, guard, log, mine, phase, copy, dead>>

\* It is registered unless restore_from_disk has the runner already.  A pidfd that
\* cannot be duplicated costs the snapshot.
AdoptRunner(r) ==
    /\ pc[r] = "adoptVerify"
    /\ OpenSucceeds(r)
    /\ \/ /\ table' = IF table[r] = None THEN [table EXCEPT ![r] = registry'[r]] ELSE table
          /\ UNCHANGED snapDisk
       \/ "io" \in Faults /\ snapDisk' = Removed(snapDisk, r) /\ UNCHANGED table
    /\ pc' = [pc EXCEPT ![r] = "idle"] /\ adopting' = adopting \ {r}
    /\ UNCHANGED <<up, crashes, disk, guard, log, mine, phase, copy, dead>>

\* Every error of the broker leaves the snapshot for the next time.
AdoptLeft(r) ==
    /\ \/ pc[r] = "adoptVerify" /\ OpenFails(r)
       \/ /\ pc[r] = "adoptOpen"
          /\ (Serving /\ st[snapDisk[r].pid] = "none" /\ UNCHANGED brokerVars) \/ RpcFails
    /\ pc' = [pc EXCEPT ![r] = "idle"] /\ adopting' = adopting \ {r}
    /\ UNCHANGED <<up, crashes, table, fileVars, guard, log, mine, phase, copy, dead>>

\* A snapshot file that cannot be removed ends the adoption before the table is
\* persisted.
AdoptAborted ==
    /\ "io" \in Faults /\ up = "adopt"
    /\ \A r \in Runner : pc[r] \notin {"adoptVerify"}
    /\ up' = "up" /\ adopting' = {}
    /\ pc' = [r \in Runner |-> "idle"]
    /\ UNCHANGED <<brokerVars, crashes, table, fileVars, guard, log, mine, phase, copy, dead>>

\* The adopted table is persisted, or the failure is logged.
AdoptDone ==
    /\ up = "adopt" /\ adopting = {}
    /\ up' = "up"
    /\ disk' = table \/ ("io" \in Faults /\ UNCHANGED disk)
    /\ UNCHANGED <<brokerVars, crashes, adopting, table, snapDisk, guard, log, pc, mine, phase,
                   copy, dead>>
-----------------------------------------------------------------------------
StartStep(r) ==
    \/ PruneScan(r) \/ PruneDrop(r) \/ PruneWrite(r) \/ CheckDuplicate(r)
    \/ SpawnRequest(r) \/ SpawnRefused(r) \/ SpawnReply(r) \/ SpawnError(r) \/ SpawnTimeout(r)
    \/ RegisterEntry(r) \/ RegisterEnvEntry(r) \/ RegisterFails(r)
    \/ RegisterWrite(r) \/ RegisterWriteFails(r)
    \/ WriteRunnerSnapshot(r) \/ RunnerSnapshotFails(r)
    \/ CleanupEntry(r) \/ CleanupWrite(r)
    \/ StopUnregisteredSignal(r) \/ StopUnregisteredOpen(r) \/ StopUnregisteredOpened(r)
    \/ StopUnregisteredPoll(r) \/ StopUnregisteredReaped(r) \/ FinishUnregistered(r)
    \/ StopUnregisteredEscalates(r) \/ StopUnregisteredGivesUp(r)
    \/ StartReady(r) \/ StartRollback(r)

StopStep(r) ==
    \/ Signal(r) \/ SignalNotFound(r) \/ SignalViaBroker(r) \/ SignalViaBrokerFails(r)
    \/ SignalOpened(r) \/ RefreshReapLog(r)
    \/ WaitReapLog(r) \/ WaitGone(r) \/ WaitAlive(r) \/ WaitNotFound(r)
    \/ PollGone(r) \/ PollReaped(r) \/ PollAgain(r)
    \/ TermTimeout(r) \/ KillTimeout(r)
    \/ FinishEntry(r) \/ FinishBroker(r) \/ FinishSnapshot(r)
    \/ FinalSnapshot(r) \/ FinalWrite(r)

AdoptStep ==
    \/ Restore \/ AdoptDone \/ AdoptAborted
    \/ \E r \in Runner :
        \/ AdoptClassify(r) \/ AdoptMissing(r) \/ AdoptQuarantine(r)
        \/ AdoptOpen(r) \/ AdoptRunner(r) \/ AdoptLeft(r)

Next ==
    \/ \E r \in Runner : StartVm(r) \/ StopVm(r) \/ StartStep(r) \/ StopStep(r)
    \/ BrokerInternal /\ UNCHANGED daemonVars
    \/ Unheard
    \/ Crash
    \/ AdoptStep

Safety == Init /\ [][Next]_vars

\* The deadline of the wait r is in.
Deadline(r) ==
    \/ StopUnregisteredEscalates(r) \/ StopUnregisteredGivesUp(r)
    \/ TermTimeout(r) \/ KillTimeout(r)

\* The threads of both processes are scheduled again and again, and every wait
\* has a deadline: its loop may go round any number of times but not for ever.
Fairness ==
    /\ WF_vars((ReaperStep \/ SpawnStep) /\ UNCHANGED daemonVars)
    /\ WF_vars(Unheard)
    /\ WF_vars(AdoptStep)
    /\ \A r \in Runner : SF_vars(StartStep(r) \/ StopStep(r)) /\ SF_vars(Deadline(r))

Spec == Safety /\ Fairness

\* The same with a user who keeps asking for the VM to be started.
RetrySpec == Spec /\ \A r \in Runner : SF_vars(StartVm(r))
-----------------------------------------------------------------------------
\* Every process the daemon names for a runner - in the table, in either file,
\* or as the process a thread is working on - was spawned as that runner or is
\* gone: no entry ever comes to stand for a process that inherited the pid.
RecordsAreOwn ==
    \A r \in Runner : \A i \in {table[r], disk[r], snapDisk[r], mine[r]} \ {None} : Recorded(r, i)

\* The daemon keeps its side of the broker's contract: every request it sends,
\* in every interleaving, is one BrokerNext allows, so that what holds of the
\* broker with any client holds of the two together.
KeepsBrokerContract == BrokerSafety

\* A runner of the table whose registration has returned is on disk, in the
\* table's file or in its own snapshot: however the threads of different VMs
\* interleave their copies and writes, a crash finds it again.
CrashSafe ==
    \A r \in Runner :
        (up = "up" /\ table[r] # None /\ pc[r] # "registerWrite") =>
            table[r] \in {disk[r], snapDisk[r]}

\* The per-env spawner writes the table without the guard, and its late write can
\* take another VM's entry off the file.  The runner snapshots make up for it: a
\* runner whose start has returned is still in one of the two files.
ReturnedStartSurvives ==
    \A r \in Runner :
        (up = "up" /\ table[r] # None /\ pc[r] = "idle") => table[r] \in {disk[r], snapDisk[r]}

\* prune_dead_entries never takes out a runner that is alive, although other
\* threads start and register runners between its scan and its removals: an
\* entry of a live process is removed only by a step of its own thread, or with
\* the whole table in a crash.
PruneKeepsLive ==
    [][\A r \in Runner :
        (up = "up" /\ up' = "up" /\ table[r] # None /\ Alive(table[r]) /\ table'[r] = None)
            => pc[r] # pc'[r]]_vars

\* Startup recovery: wherever the daemon crashed, in an operation or in an
\* earlier recovery, once it is up again every runner snapshot of a live process
\* is matched by a table entry, unless an operation on that runner is under way.
\* It holds when files can be written and the broker answers (an OpenPidfd that
\* fails is not tried again, and the runner stays unsupervised) and when all that
\* register take the guard (the late write of a per-env spawner can put a process
\* back on file that a newer one has replaced, and Restore prefers the file).
SnapshotsAreSupervised ==
    (Faults \subseteq {"spawn"} /\ EnvRunner = {} /\ restarts = 0) =>
        \A r \in Runner :
            (up = "up" /\ pc[r] = "idle" /\ snapDisk[r] # None /\ Alive(snapDisk[r])) =>
                table[r] = snapDisk[r]

\* Every start and stop returns: no thread waits for ever for the mutation guard
\* (cleanup_vm_start_registration takes it again after register_node_pidfd has
\* dropped it) or for an exit that is never reported.
EveryOperationReturns == \A r \in Runner : pc[r] # "idle" ~> pc[r] = "idle"
-----------------------------------------------------------------------------
\* Statements of the code's own comments and docs that do not hold.

\* WaitTermination::TerminatedByBroker: "Child was already reaped by the
\* broker's SIGCHLD handler": a wait that ended means the process has ended.
TerminatedMeansReaped == \A r \in Runner : pc[r] = "finish" => ~Alive(mine[r])

\* mutation_guard: "concurrent different-VM ops cannot lose an entry on disk".
NoEntryLostOnDisk ==
    \A r \in Runner :
        (up = "up" /\ table[r] # None /\ pc[r] # "registerWrite") => disk[r] = table[r]

\* reserve_runner_id_for_spawn: "a live entry is cleared on exit (SIGCHLD
\* reaper) or on down/stop - so a legitimate re-spawn never collides here": the
\* registration of a process that is gone does not stay in the way of starts.
DeadRegistrationCleared ==
    \A r \in Runner : \A i \in Inst :
        (registry[r] = i /\ ~Exists(i)) ~> (registry[r] # i)
=============================================================================
