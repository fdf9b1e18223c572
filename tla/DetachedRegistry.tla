-------------------------- MODULE DetachedRegistry --------------------------
(* guestd's registry of detached execs, detached_registry.rs: one record per   *)
(* slot in memory and in /run/d2b-exec/slot-NN, one pair of transient units    *)
(* per slot in systemd, and a root runner that publishes what became of the    *)
(* workload.  Creates, API calls and the reaper run concurrently and meet the  *)
(* runner only through files and systemctl; guestd may die at any point and    *)
(* re-adopt what it finds.                                                     *)
EXTENDS Integers, FiniteSets, Sequences

CONSTANTS
    Slot,         \* 0 .. DETACHED_RETAINED_PER_VM - 1
    Exec,         \* exec ids
    Caller,       \* concurrent API calls
    Reaper,       \* the reaper task
    NoExec,
    MaxActive,    \* DETACHED_ACTIVE_PER_VM
    Ceiling,      \* max_runtime_sec > 0
    MaxCrashes,   \* bound: guestd's crashes
    MaxFaults     \* bound: failures of the store and deaths of a runner

Actor == Caller \union {Reaper}

ASSUME RegistryAssumption ==
    /\ Slot \subseteq Nat /\ 0 \in Slot /\ IsFiniteSet(Slot)
    /\ MaxActive \in Nat /\ MaxCrashes \in Nat /\ MaxFaults \in Nat
    /\ NoExec \notin Exec /\ Reaper \notin Caller

VARIABLES
    entry,      \* RegistryState.slots
    active,     \* RegistryState.active
    reserved,   \* RegistryState.reserved_log_bytes, in reservations of one exec
    tombstones, \* RegistryState.tombstones
    create,     \* where the create that holds a slot stands
    call,       \* the API calls and the reaper
    disk,       \* the slot directories
    unit,       \* the runner and workload units
    late,       \* slots past dispatch_deadline_unix
    expired,    \* slots past terminal_time_unix + RETENTION_TTL_MS
    boot,       \* startup reconciliation
    crashes, faults

registry == <<entry, active, reserved, tombstones>>
clock == <<late, expired>>
bounds == <<crashes, faults>>
vars == <<entry, active, reserved, tombstones, create, call, disk, unit, late, expired,
          boot, crashes, faults>>

Terminal == {"exited", "cancelled", "spawn_failed"}
Phase == {"none", "started", "infra_failed"} \union Terminal
State == {"free", "dispatching", "running"} \union Terminal

\* SlotEntry; the record's hidden states and its accounting.
Entry == [id : Exec \union {NoExec}, state : State,
          lost : BOOLEAN, creating : BOOLEAN, hold : BOOLEAN, counted : BOOLEAN, guards : Nat]
Free == [id |-> NoExec, state |-> "free", lost |-> FALSE, creating |-> FALSE, hold |-> FALSE,
         counted |-> FALSE, guards |-> 0]
Taken(s) == entry[s].state # "free"
IsTerminal(s) == entry[s].state \in Terminal
Hidden(s) == entry[s].creating \/ entry[s].hold

\* A slot directory: the record, the status and whose runner wrote it, the
\* cancel sentinel, and whose output the log rings hold.
NoDir == [dir |-> FALSE, id |-> NoExec, state |-> "free", lost |-> FALSE,
          status |-> "none", by |-> NoExec, cancel |-> FALSE, log |-> NoExec]

\* The two units of a slot: the runner's progress, for whom, whether the workload
\* runs, and the phase the runner will publish.
NoUnit == [run |-> "none", id |-> NoExec, work |-> FALSE, phase |-> "none"]
RunnerActive(u) == u.run \in {"boot", "spawned", "started", "reaped", "published"}
Loaded(u) == u.run # "none" \/ u.work

IdleCall == [pc |-> "idle", slot |-> 0, then |-> "return", phase |-> "none", id |-> NoExec,
             todo |-> {}]
Down == [pc |-> "down", todo |-> {}, units |-> {}, live |-> [s \in Slot |-> "unknown"]]

CreatePC == {"none", "persist", "record", "start", "poll", "query", "stop", "remove", "helper"}
Call == [pc : {"idle", "check", "commit", "list", "stop", "lose", "after", "backstop", "relist", "read",
               "adopted", "sweep", "hold", "holdlist", "gc", "unlink"},
         slot : Slot, then : {"return", "cancel", "poll", "last", "lastStopped"},
         phase : Phase, id : Exec \union {NoExec}, todo : SUBSET Slot]
Dir == [dir : BOOLEAN, id : Exec \union {NoExec}, state : State, lost : BOOLEAN, status : Phase,
        by : Exec \union {NoExec}, cancel : BOOLEAN, log : Exec \union {NoExec}]
Unit == [run : {"none", "boot", "spawned", "started", "reaped", "published", "failed"},
         id : Exec \union {NoExec}, work : BOOLEAN, phase : Phase]
Live == {"live", "orphan", "foreign", "absent", "unknown"}

\* The type invariant.
RegistryTypeOK ==
    /\ entry \in [Slot -> Entry] /\ active \in Nat /\ reserved \in Nat
    /\ tombstones \in Seq(Exec)
    /\ create \in [Slot -> CreatePC] /\ call \in [Actor -> Call]
    /\ disk \in [Slot -> Dir] /\ unit \in [Slot -> Unit]
    /\ late \subseteq Slot /\ expired \subseteq Slot
    /\ boot \in [pc : {"down", "adopt", "orphans", "up"}, todo : SUBSET Slot, units : SUBSET Slot,
                 live : [Slot -> Live]]
    /\ crashes \in 0..MaxCrashes /\ faults \in 0..MaxFaults

RegistryInit ==
    /\ entry = [s \in Slot |-> Free] /\ active = 0 /\ reserved = 0 /\ tombstones = <<>>
    /\ create = [s \in Slot |-> "none"] /\ call = [a \in Actor |-> IdleCall]
    /\ disk = [s \in Slot |-> NoDir] /\ unit = [s \in Slot |-> NoUnit]
    /\ late = {} /\ expired = {}
    /\ boot = [Down EXCEPT !.pc = "up"] /\ crashes = 0 /\ faults = 0
-----------------------------------------------------------------------------
(* The registry's own transitions, each under the registry mutex, with the     *)
(* record write that follows it.                                               *)

Fault == faults < MaxFaults /\ faults' = faults + 1
NoFault == UNCHANGED faults

\* The cost of a step in which operations came out as r and q.
Cost(r) == IF r = "fault" THEN 1 ELSE 0
Spend(r, q) == faults' = faults + Cost(r) + Cost(q) /\ faults' <= MaxFaults

\* read_status, where the caller takes a status it cannot read for none.
ReadStatus(s) == {disk[s].status} \union (IF faults < MaxFaults THEN {"none"} ELSE {})
ReadCost(s, status) == IF status = disk[s].status THEN "ok" ELSE "fault"

\* SlotStore::write_record of entry e into directory d.
Recorded(d, e) == IF d.dir THEN [d EXCEPT !.id = e.id, !.state = e.state, !.lost = e.lost] ELSE d

\* The entry of s becomes e, and the record is written.
Becomes(s, e) ==
    /\ entry' = [entry EXCEPT ![s] = IF Taken(s) THEN e ELSE @]
    /\ disk' = [disk EXCEPT ![s] = IF Taken(s) THEN Recorded(@, e) ELSE @]

\* release_active; the counters saturate.
Released(s) == IF entry[s].counted /\ active > 0 THEN active - 1 ELSE active

CommitRunning(s) ==
    /\ Becomes(s, [entry[s] EXCEPT !.state = IF @ = "dispatching" THEN "running" ELSE @,
                                   !.creating = FALSE, !.hold = FALSE])
    /\ UNCHANGED <<active, reserved, tombstones, clock>>

CommitTerminal(s, phase) ==
    /\ Becomes(s, [entry[s] EXCEPT !.state = IF IsTerminal(s) THEN @ ELSE phase,
                                   !.creating = FALSE, !.hold = FALSE, !.counted = FALSE])
    /\ active' = Released(s)
    /\ expired' = IF IsTerminal(s) THEN expired ELSE expired \ {s}
    /\ UNCHANGED <<reserved, tombstones, late>>

\* Mutant: a lost record keeps its active unit.
MarkLostCounted(s) ==
    IF IsTerminal(s) THEN UNCHANGED <<registry, disk, clock>>
    ELSE /\ Becomes(s, [entry[s] EXCEPT !.state = "cancelled", !.lost = TRUE])
         /\ expired' = expired \ {s}
         /\ UNCHANGED <<active, reserved, tombstones, late>>

MarkLost(s) ==
    IF IsTerminal(s) THEN UNCHANGED <<registry, disk, clock>>
    ELSE /\ Becomes(s, [entry[s] EXCEPT !.state = "cancelled", !.lost = TRUE, !.counted = FALSE])
         /\ active' = Released(s)
         /\ expired' = expired \ {s}
         /\ UNCHANGED <<reserved, tombstones, late>>

RemoveEntry(s) ==
    /\ entry' = [entry EXCEPT ![s] = Free]
    /\ active' = Released(s)
    /\ reserved' = IF Taken(s) /\ reserved > 0 THEN reserved - 1 ELSE reserved
    /\ expired' = expired \ {s}

\* push_tombstone, which keeps as many ids as there are slots.
PushTombstone(x) ==
    tombstones' = Append(IF Len(tombstones) >= Cardinality(Slot) THEN Tail(tombstones) ELSE tombstones, x)

\* delete_slot_dir, which may fail and leave the directory.
DeleteDir(s, r) == disk' = IF r = "ok" THEN [disk EXCEPT ![s] = NoDir] ELSE disk
-----------------------------------------------------------------------------
(* systemd, as guestd uses it.                                                 *)

\* stop_unit.  An error says nothing: the units are stopped and one of them was
\* no longer loaded, or systemctl could not be run.
StopResult == {"ok", "error", "fault"}

\* stop_unit, then reset_failed.
Stop(s, r) == unit' = IF r = "fault" THEN unit ELSE [unit EXCEPT ![s] = NoUnit]
StopOnly(s) == \E r \in StopResult : Stop(s, r) /\ Spend(r, "ok")

\* stop_unit, and reset_failed only if it succeeded: a failed runner unit stays.
StopChecked(s, r) ==
    IF r = "error" /\ unit[s].run = "failed" THEN unit' = [unit EXCEPT ![s].work = FALSE] ELSE Stop(s, r)

\* classify_unit
Classified(u) ==
    IF u.run = "failed" THEN "foreign"
    ELSE IF RunnerActive(u) THEN IF u.work THEN "live" ELSE "unknown"
    ELSE IF u.work THEN "orphan" ELSE "absent"

\* unit_liveness: a failed query is unknown.
Liveness(s) == {Classified(unit[s]), "unknown"}

\* The runner unit starts; the runner finds whom it runs for in the directory.
Registered(s) == [NoUnit EXCEPT !.run = "boot", !.id = disk[s].id]
-----------------------------------------------------------------------------
(* The runner, d2b-exec-runner's service_mode.rs.                              *)

Publish(s, phase) == disk' = [disk EXCEPT ![s].status = phase, ![s].by = unit[s].id]

\* supervise opens the rings and spawns the workload unit.
RunnerSpawn(s) ==
    /\ unit[s].run = "boot"
    /\ IF ~disk[s].dir
       THEN unit' = [unit EXCEPT ![s].run = "failed"] /\ UNCHANGED disk /\ NoFault
       ELSE \/ /\ unit' = [unit EXCEPT ![s].run = "spawned", ![s].work = TRUE]
               /\ disk' = [disk EXCEPT ![s].log = unit[s].id]
               /\ NoFault
            \/ unit' = [unit EXCEPT ![s] = NoUnit] /\ Publish(s, "spawn_failed") /\ NoFault
            \/ unit' = [unit EXCEPT ![s] = NoUnit] /\ Publish(s, "infra_failed") /\ Fault
    /\ UNCHANGED <<registry, create, call, clock, boot, crashes>>

\* It publishes Started, or tears the workload down if it cannot.
RunnerStarted(s) ==
    /\ unit[s].run = "spawned"
    /\ \/ disk[s].dir /\ NoFault /\ Publish(s, "started") /\ unit' = [unit EXCEPT ![s].run = "started"]
       \/ /\ IF disk[s].dir THEN Fault ELSE NoFault
          /\ unit' = [unit EXCEPT ![s].run = "failed", ![s].work = FALSE] /\ UNCHANGED disk
    /\ UNCHANGED <<registry, create, call, clock, boot, crashes>>

\* The workload ends: by itself, or because the watcher saw the cancel sentinel
\* or the runtime ceiling first.
WorkloadEnds(s) ==
    /\ unit[s].run = "started"
    /\ \E phase \in {"exited"} \union (IF disk[s].cancel \/ Ceiling THEN {"cancelled"} ELSE {}) :
          unit' = [unit EXCEPT ![s].run = "reaped", ![s].work = FALSE, ![s].phase = phase]
    /\ UNCHANGED <<registry, create, call, disk, clock, boot, bounds>>

\* It publishes the terminal status.
RunnerPublish(s) ==
    /\ unit[s].run = "reaped"
    /\ \/ /\ disk[s].dir /\ NoFault /\ Publish(s, unit[s].phase)
          /\ unit' = [unit EXCEPT ![s].run = "published"]
       \/ /\ IF disk[s].dir THEN Fault ELSE NoFault
          /\ unit' = [unit EXCEPT ![s].run = "failed"] /\ UNCHANGED disk
    /\ UNCHANGED <<registry, create, call, clock, boot, crashes>>

RunnerExit(s) ==
    /\ unit[s].run = "published"
    /\ unit' = [unit EXCEPT ![s] = NoUnit]
    /\ UNCHANGED <<registry, create, call, disk, clock, boot, bounds>>

\* The runner is killed; BindsTo then stops the workload unit.
RunnerDies(s) ==
    /\ RunnerActive(unit[s]) /\ Fault
    /\ unit' = [unit EXCEPT ![s].run = "failed"]
    /\ UNCHANGED <<registry, create, call, disk, clock, boot, crashes>>

WorkloadUnbound(s) ==
    /\ unit[s].run \in {"failed", "none"} /\ unit[s].work
    /\ unit' = [unit EXCEPT ![s].work = FALSE]
    /\ UNCHANGED <<registry, create, call, disk, clock, boot, bounds>>

Runner(s) ==
    \/ RunnerSpawn(s) \/ RunnerStarted(s) \/ WorkloadEnds(s) \/ RunnerPublish(s) \/ RunnerExit(s)
    \/ RunnerDies(s) \/ WorkloadUnbound(s)
-----------------------------------------------------------------------------
(* Creates.  The create that reserved a slot is the only actor on it until the *)
(* entry becomes visible or is removed, so it is kept per slot.                *)

Up == boot.pc = "up"

\* free_slot
FreeSlot(s) == ~Taken(s) /\ \A t \in Slot : ~Taken(t) => s <= t

Tombstoned(x) == \E i \in 1..Len(tombstones) : tombstones[i] = x

\* reserve_create, for an id that is neither tombstoned nor in the registry; the
\* other outcomes of create_inner change nothing.
ReserveCreate(x) ==
    /\ Up /\ ~Tombstoned(x)
    /\ \A s \in Slot : entry[s].id # x
    /\ active < MaxActive
    /\ \E s \in Slot :
       /\ FreeSlot(s)
       /\ entry' = [entry EXCEPT ![s] = [Free EXCEPT !.id = x, !.state = "dispatching",
                                                     !.creating = TRUE, !.counted = TRUE]]
       /\ create' = [create EXCEPT ![s] = "persist"]
       /\ late' = late \ {s}
    /\ active' = active + 1 /\ reserved' = reserved + 1
    /\ UNCHANGED <<tombstones, call, disk, unit, expired, boot, bounds>>

\* Mutant: the slot is not scrubbed.
PrepareUnscrubbed(s) ==
    /\ create[s] = "persist"
    /\ disk' = [disk EXCEPT ![s].dir = TRUE]
    /\ create' = [create EXCEPT ![s] = "record"]
    /\ UNCHANGED <<registry, call, unit, clock, boot, bounds>>

\* persist_dispatch: the directory, then the scrub of what a prior occupant's
\* runner left.
PrepareSlot(s) ==
    /\ create[s] = "persist"
    /\ \/ /\ NoFault
          /\ disk' = [disk EXCEPT ![s].dir = TRUE, ![s].status = "none", ![s].by = NoExec,
                                  ![s].cancel = FALSE, ![s].log = NoExec]
          /\ create' = [create EXCEPT ![s] = "record"]
       \/ Fault /\ UNCHANGED disk /\ create' = [create EXCEPT ![s] = "stop"]
    /\ UNCHANGED <<registry, call, unit, clock, boot, crashes>>

\* persist_dispatch: the record, then the spec.
WriteDispatch(s) ==
    /\ create[s] = "record"
    /\ \/ /\ NoFault
          /\ disk' = [disk EXCEPT ![s] = Recorded(@, entry[s])]
          /\ create' = [create EXCEPT ![s] = "start"]
       \/ Fault /\ UNCHANGED disk /\ create' = [create EXCEPT ![s] = "stop"]
    /\ UNCHANGED <<registry, call, unit, clock, boot, crashes>>

\* start_transient_unit, which fails while a unit of that name is loaded.
StartUnit(s) ==
    /\ create[s] = "start"
    /\ \/ /\ ~Loaded(unit[s]) /\ NoFault
          /\ unit' = [unit EXCEPT ![s] = Registered(s)]
          /\ create' = [create EXCEPT ![s] = "poll"]
       \/ /\ IF Loaded(unit[s]) THEN NoFault ELSE Fault
          /\ create' = [create EXCEPT ![s] = "stop"] /\ UNCHANGED unit
    /\ UNCHANGED <<registry, call, disk, clock, boot, crashes>>

\* await_create_resolution: the first status decides; without one, and past
\* CREATE_TIMEOUT_MS, the units are queried.
Poll(s) ==
    /\ create[s] = "poll"
    /\ \/ /\ disk[s].status = "started" /\ CommitRunning(s)
          /\ create' = [create EXCEPT ![s] = "none"]
       \/ /\ disk[s].status \in Terminal /\ CommitTerminal(s, disk[s].status)
          /\ create' = [create EXCEPT ![s] = "none"]
       \/ /\ disk[s].status \in {"infra_failed", "none"} /\ UNCHANGED <<registry, disk, clock>>
          /\ create' = [create EXCEPT ![s] = IF disk[s].status = "none" THEN "query" ELSE "stop"]
    /\ UNCHANGED <<call, unit, boot, bounds>>

\* Mutant: the error returns at once and leaves the reservation.
PollReturns(s) ==
    /\ create[s] = "poll" /\ Fault
    /\ create' = [create EXCEPT ![s] = "none"]
    /\ UNCHANGED <<registry, call, disk, unit, clock, boot, crashes>>

\* The status cannot be read: the create is torn down before the error returns.
PollFails(s) ==
    /\ create[s] = "poll" /\ Fault
    /\ create' = [create EXCEPT ![s] = "stop"]
    /\ UNCHANGED <<registry, call, disk, unit, clock, boot, crashes>>

\* A unit that may be live commits Running; any other fails the create.
Query(s) ==
    /\ create[s] = "query"
    /\ \E l \in Liveness(s) :
          IF l \in {"live", "unknown"}
          THEN CommitRunning(s) /\ create' = [create EXCEPT ![s] = "none"]
          ELSE UNCHANGED <<registry, disk, clock>> /\ create' = [create EXCEPT ![s] = "stop"]
    /\ UNCHANGED <<call, unit, boot, bounds>>

\* Mutant: the units are not stopped.
AbortKeeps(s) ==
    /\ create[s] = "stop"
    /\ create' = [create EXCEPT ![s] = "remove"]
    /\ UNCHANGED <<registry, call, disk, unit, clock, boot, bounds>>

\* abort_create
AbortStop(s) ==
    /\ create[s] = "stop"
    /\ StopOnly(s)
    /\ create' = [create EXCEPT ![s] = "remove"]
    /\ UNCHANGED <<registry, call, disk, clock, boot, crashes>>

AbortRemove(s) ==
    /\ create[s] = "remove"
    /\ \E r \in {"ok", "fault"} : DeleteDir(s, r) /\ Spend(r, "ok")
    /\ RemoveEntry(s)
    /\ create' = [create EXCEPT ![s] = "none"]
    /\ UNCHANGED <<tombstones, call, unit, late, boot, crashes>>

Create(s) ==
    \/ PrepareSlot(s) \/ WriteDispatch(s) \/ StartUnit(s) \/ Poll(s) \/ PollFails(s) \/ Query(s)
    \/ AbortStop(s) \/ AbortRemove(s)
-----------------------------------------------------------------------------
(* API calls.  inspect, wait and list reconcile a visible slot and read it;    *)
(* cancel reconciles between its phases; read_logs guards the slot and reads.  *)

Goto(a, pc) == call' = [call EXCEPT ![a].pc = pc]
Done(a) == call' = [call EXCEPT ![a] = IdleCall]

\* resolve_slot, and the first step of the call.  On a terminal record inspect,
\* wait and cancel return at once and change nothing.
Begin(c, x, then) ==
    /\ Up /\ call[c].pc = "idle"
    /\ \E s \in Slot :
          /\ entry[s].id = x /\ ~Hidden(s) /\ ~IsTerminal(s)
          /\ call' = [call EXCEPT ![c] = [IdleCall EXCEPT !.pc = "check", !.slot = s, !.then = then, !.id = x]]
    /\ UNCHANGED <<registry, create, disk, unit, clock, boot, bounds>>

Inspect(c, x) == Begin(c, x, "return")
Cancel(c, x) == Begin(c, x, "cancel")

\* reconcile_slot, up to its first await: a terminal status is committed, Started
\* is committed and, like no status, leads to a query of the units.
Check(a) ==
    /\ call[a].pc = "check"
    /\ LET s == call[a].slot IN
       IF ~Taken(s) \/ Hidden(s) \/ IsTerminal(s)
       THEN Goto(a, "after") /\ UNCHANGED <<registry, disk, clock, faults>>
       ELSE \E status \in ReadStatus(s) :
               /\ Spend(ReadCost(s, status), "ok")
               /\ IF status \in Terminal
                  THEN call' = [call EXCEPT ![a].pc = "commit", ![a].phase = status] ELSE Goto(a, "list")
               /\ IF status = "started" THEN CommitRunning(s) ELSE UNCHANGED <<registry, disk, clock>>
    /\ UNCHANGED <<create, unit, boot, crashes>>

\* stop_unit and reset_failed, then commit_terminal.
Commit(a) ==
    /\ call[a].pc = "commit"
    /\ StopOnly(call[a].slot)
    /\ CommitTerminal(call[a].slot, call[a].phase)
    /\ Goto(a, "after")
    /\ UNCHANGED <<create, boot, crashes>>

\* unit_liveness
List(a) ==
    /\ call[a].pc = "list"
    /\ \E l \in Liveness(call[a].slot) :
          \/ l \in {"live", "unknown"} /\ Goto(a, "after")
          \/ l \in {"orphan", "foreign"} /\ Goto(a, "stop")
          \/ l = "absent" /\ Goto(a, "lose")
    /\ UNCHANGED <<registry, create, disk, unit, clock, boot, bounds>>

\* An orphaned workload or a dead unit is stopped first; if that fails, a later
\* pass tries again.
StopOrphan(a) ==
    /\ call[a].pc = "stop"
    /\ \E r \in StopResult :
          StopChecked(call[a].slot, r) /\ Spend(r, "ok") /\ Goto(a, IF r = "ok" THEN "lose" ELSE "after")
    /\ UNCHANGED <<registry, create, disk, clock, boot, crashes>>

\* The end of reconcile_slot: the unit is gone and published nothing.
Lose(a) ==
    /\ call[a].pc = "lose"
    /\ LET s == call[a].slot IN
       IF entry[s].state = "dispatching" /\ s \notin late
       THEN UNCHANGED <<registry, disk, clock>> ELSE MarkLost(s)
    /\ Goto(a, "after")
    /\ UNCHANGED <<create, unit, boot, bounds>>

\* What the call does after a reconciliation: cancel writes the sentinel, polls
\* until CANCEL_DEADLINE_MS, then stops the units.
After(a) ==
    /\ call[a].pc = "after"
    /\ LET s == call[a].slot
           terminal == IsTerminal(s)
           next(pc, then) == call' = [call EXCEPT ![a].pc = pc, ![a].then = then]
       IN \/ /\ call[a].then = "return" \/ terminal
             /\ Done(a) /\ UNCHANGED <<registry, disk, clock, faults>>
          \/ /\ call[a].then = "cancel" /\ ~terminal
             /\ \/ /\ disk[s].dir /\ NoFault
                   /\ disk' = [disk EXCEPT ![s].cancel = TRUE] /\ next("check", "poll")
                \/ /\ IF disk[s].dir THEN Fault ELSE NoFault
                   /\ Done(a) /\ UNCHANGED disk
             /\ UNCHANGED <<registry, clock>>
          \/ /\ call[a].then = "poll" /\ ~terminal
             /\ next("check", "poll") \/ next("backstop", "last")
             /\ UNCHANGED <<registry, disk, clock, faults>>
          \/ /\ call[a].then = "last" /\ ~terminal
             /\ Goto(a, "relist") /\ UNCHANGED <<registry, disk, clock, faults>>
          \/ /\ call[a].then = "lastStopped" /\ ~terminal
             /\ Done(a) /\ MarkLost(s) /\ NoFault
    /\ UNCHANGED <<create, unit, boot, crashes>>

\* cancel, phase 3: stop the units, reconcile, and give the exec up only if they
\* were stopped or are gone.
Backstop(a) ==
    /\ call[a].pc = "backstop"
    /\ \E r \in StopResult :
          /\ StopChecked(call[a].slot, r) /\ Spend(r, "ok")
          /\ call' = [call EXCEPT ![a].pc = "check", ![a].then = IF r = "ok" THEN "lastStopped" ELSE "last"]
    /\ UNCHANGED <<registry, create, disk, clock, boot, crashes>>

\* Mutant: a query that failed counts as a unit that is gone.
RelistUnknown(a) ==
    /\ call[a].pc = "relist"
    /\ \E l \in Liveness(call[a].slot) :
          IF l \in {"absent", "unknown"} THEN MarkLost(call[a].slot) ELSE UNCHANGED <<registry, disk, clock>>
    /\ Done(a)
    /\ UNCHANGED <<create, unit, boot, bounds>>

Relist(a) ==
    /\ call[a].pc = "relist"
    /\ \E l \in Liveness(call[a].slot) :
          IF l = "absent" THEN MarkLost(call[a].slot) ELSE UNCHANGED <<registry, disk, clock>>
    /\ Done(a)
    /\ UNCHANGED <<create, unit, boot, bounds>>

\* read_logs: resolve_slot and the guard, then the read and the guard's release.
ReadLogs(c, x) ==
    /\ Up /\ call[c].pc = "idle"
    /\ \E s \in Slot :
          /\ entry[s].id = x /\ ~Hidden(s)
          /\ entry' = [entry EXCEPT ![s].guards = @ + 1]
          /\ call' = [call EXCEPT ![c] = [IdleCall EXCEPT !.pc = "read", !.slot = s, !.id = x]]
    /\ UNCHANGED <<active, reserved, tombstones, create, disk, unit, clock, boot, bounds>>

DropGuard(c) ==
    /\ call[c].pc = "read"
    /\ entry' = [entry EXCEPT ![call[c].slot].guards = IF @ > 0 THEN @ - 1 ELSE 0]
    /\ Done(c)
    /\ UNCHANGED <<active, reserved, tombstones, create, disk, unit, clock, boot, bounds>>

Reconcile(a) ==
    \/ Check(a) \/ Commit(a) \/ List(a) \/ StopOrphan(a) \/ Lose(a) \/ After(a)
    \/ Backstop(a) \/ Relist(a)
-----------------------------------------------------------------------------
(* The reaper: one task, which sweeps orphan units and then takes slot after   *)
(* slot.                                                                       *)

ReaperIdle == Up /\ call[Reaper].pc = "idle"

\* sweep_orphan_units: the units, then the registry, then the stops.
SweepList ==
    /\ ReaperIdle
    /\ call' = [call EXCEPT ![Reaper].pc = "adopted", ![Reaper].todo = {s \in Slot : Loaded(unit[s])}]
    /\ UNCHANGED <<registry, create, disk, unit, clock, boot, bounds>>

SweepAdopted ==
    /\ call[Reaper].pc = "adopted"
    /\ call' = [call EXCEPT ![Reaper].pc = "sweep", ![Reaper].todo = {s \in @ : ~Taken(s)}]
    /\ UNCHANGED <<registry, create, disk, unit, clock, boot, bounds>>

SweepStop ==
    /\ call[Reaper].pc = "sweep"
    /\ IF call[Reaper].todo = {} THEN Done(Reaper) /\ UNCHANGED unit /\ NoFault
       ELSE \E s \in call[Reaper].todo : StopOnly(s) /\ call' = [call EXCEPT ![Reaper].todo = @ \ {s}]
    /\ UNCHANGED <<registry, create, disk, clock, boot, crashes>>

\* Mutant: terminal records are collected before their TTL.
ReapAny(s) ==
    /\ ReaperIdle /\ Taken(s) /\ ~entry[s].creating
    /\ call' = [call EXCEPT ![Reaper].slot = s,
                    ![Reaper].pc = IF entry[s].hold THEN "hold" ELSE IF IsTerminal(s) THEN "gc" ELSE "check",
                    ![Reaper].todo = IF s \in late THEN {s} ELSE {}]
    /\ UNCHANGED <<registry, create, disk, unit, clock, boot, bounds>>

\* reap_once, one slot: a hold is resolved, a live record reconciled, a terminal
\* one collected past its TTL.
ReapSlot(s) ==
    /\ ReaperIdle /\ Taken(s) /\ ~entry[s].creating
    /\ entry[s].hold \/ ~IsTerminal(s) \/ s \in expired
    /\ call' = [call EXCEPT ![Reaper].slot = s,
                    ![Reaper].pc = IF entry[s].hold THEN "hold" ELSE IF IsTerminal(s) THEN "gc" ELSE "check",
                    ![Reaper].todo = IF s \in late THEN {s} ELSE {}]
    /\ UNCHANGED <<registry, create, disk, unit, clock, boot, bounds>>

\* delete_dispatch_hold: the reservation is kept while the directory cannot go.
DeleteHold(s, r) ==
    /\ DeleteDir(s, r)
    /\ IF r = "ok" THEN RemoveEntry(s) ELSE UNCHANGED <<entry, active, reserved, expired>>
    /\ UNCHANGED <<tombstones, late>>

\* promote_dispatch_hold
Promote(s) ==
    /\ Becomes(s, [entry[s] EXCEPT !.hold = FALSE, !.state = IF @ = "dispatching" THEN "running" ELSE @])
    /\ UNCHANGED <<active, reserved, tombstones, clock>>

\* resolve_dispatch_hold: by the status,
HoldStatus ==
    /\ call[Reaper].pc = "hold"
    /\ LET s == call[Reaper].slot
           status == disk[s].status
       IN \/ status = "started" /\ Promote(s) /\ Done(Reaper) /\ UNCHANGED <<unit, faults>>
          \/ /\ status # "none" /\ Fault
             /\ Goto(Reaper, "holdlist") /\ UNCHANGED <<registry, disk, unit, clock>>
          \/ /\ status = "infra_failed" /\ Done(Reaper)
             /\ \E q \in StopResult, r \in {"ok", "fault"} : Stop(s, q) /\ DeleteHold(s, r) /\ Spend(q, r)
          \/ status \in Terminal /\ StopOnly(s) /\ CommitTerminal(s, status) /\ Done(Reaper)
          \/ /\ status = "none"
             /\ Goto(Reaper, "holdlist") /\ UNCHANGED <<registry, disk, unit, clock, faults>>
    /\ UNCHANGED <<create, boot, crashes>>

\* or, if systemd answers, by the units; past_deadline was read when the slot was
\* taken up.
HoldUnits ==
    /\ call[Reaper].pc = "holdlist"
    /\ LET s == call[Reaper].slot
           l == Classified(unit[s])
           giveUp(r) == IF s \in call[Reaper].todo THEN DeleteHold(s, r)
                        ELSE r = "ok" /\ UNCHANGED <<registry, disk, clock>>
       IN \/ l = "live" /\ Promote(s) /\ UNCHANGED <<unit, faults>>
          \/ l = "unknown" /\ UNCHANGED <<registry, disk, unit, clock, faults>>
          \/ /\ l = "absent" /\ UNCHANGED unit
             /\ \E r \in {"ok", "fault"} : giveUp(r) /\ Spend(r, "ok")
          \/ /\ l \in {"orphan", "foreign"} /\ Stop(s, "ok")
             /\ \E r \in {"ok", "fault"} : giveUp(r) /\ Spend(r, "ok")
          \/ /\ l \in {"orphan", "foreign"} /\ UNCHANGED <<registry, disk, clock>>
             /\ \E q \in {"error", "fault"} : StopChecked(s, q) /\ Spend(q, "ok")
    /\ Done(Reaper)
    /\ UNCHANGED <<create, boot, crashes>>

HoldUnknown ==
    /\ call[Reaper].pc = "holdlist"
    /\ Done(Reaper)
    /\ UNCHANGED <<registry, create, disk, unit, clock, boot, bounds>>

\* gc_slot: the units are stopped outside the mutex,
GcStop ==
    /\ call[Reaper].pc = "gc"
    /\ StopOnly(call[Reaper].slot)
    /\ Goto(Reaper, "unlink")
    /\ UNCHANGED <<registry, create, disk, clock, boot, crashes>>

\* Mutant: the guards are not checked under the mutex.
GcUnguarded ==
    /\ call[Reaper].pc = "unlink"
    /\ LET s == call[Reaper].slot IN
       /\ DeleteDir(s, "ok") /\ RemoveEntry(s) /\ PushTombstone(entry[s].id)
    /\ Done(Reaper)
    /\ UNCHANGED <<create, unit, late, boot, bounds>>

\* and under it the guards are checked again and the directory goes, or stays
\* with its entry.
GcUnlink ==
    /\ call[Reaper].pc = "unlink"
    /\ LET s == call[Reaper].slot IN
       IF ~Taken(s) \/ entry[s].guards > 0 THEN UNCHANGED <<registry, disk, clock, faults>>
       ELSE \E r \in {"ok", "fault"} :
               /\ DeleteDir(s, r) /\ Spend(r, "ok") /\ UNCHANGED late
               /\ IF r = "ok" THEN RemoveEntry(s) /\ PushTombstone(entry[s].id)
                  ELSE UNCHANGED <<registry, expired>>
    /\ Done(Reaper)
    /\ UNCHANGED <<create, unit, boot, crashes>>

Reap ==
    \/ SweepList \/ SweepAdopted \/ SweepStop
    \/ (\E s \in Slot : ReapSlot(s))
    \/ HoldStatus \/ HoldUnits \/ HoldUnknown \/ GcStop \/ GcUnlink
-----------------------------------------------------------------------------
(* A crash of guestd, and reconcile_on_startup.                                *)

\* The registry, the calls and the creates are gone; a systemd-run that was
\* started may still register its unit.
Crash ==
    /\ boot.pc # "down" /\ crashes < MaxCrashes
    /\ crashes' = crashes + 1
    /\ entry' = [s \in Slot |-> Free] /\ active' = 0 /\ reserved' = 0 /\ tombstones' = <<>>
    /\ create' = [s \in Slot |-> IF create[s] \in {"start", "helper"} /\ s \notin late THEN "helper" ELSE "none"]
    /\ call' = [a \in Actor |-> IdleCall] /\ boot' = Down
    /\ UNCHANGED <<disk, unit, clock, faults>>

HelperRegisters(s) ==
    /\ create[s] = "helper"
    /\ create' = [create EXCEPT ![s] = "none"]
    /\ unit' = IF Loaded(unit[s]) THEN unit ELSE [unit EXCEPT ![s] = Registered(s)]
    /\ UNCHANGED <<registry, call, disk, clock, boot, bounds>>

\* The directories and the units, once; without the units every slot is unknown.
StartupList ==
    /\ boot.pc = "down"
    /\ \/ boot' = [pc |-> "adopt", todo |-> {s \in Slot : disk[s].dir},
                   units |-> {s \in Slot : Loaded(unit[s])}, live |-> [s \in Slot |-> Classified(unit[s])]]
       \/ boot' = [Down EXCEPT !.pc = "adopt", !.todo = {s \in Slot : disk[s].dir}]
    /\ UNCHANGED <<registry, create, call, disk, unit, clock, bounds>>

\* insert_adopted: the record of the directory, adopted in a state.
Adopted(s, state, lost) ==
    [id |-> disk[s].id, state |-> state, lost |-> lost, creating |-> FALSE,
     hold |-> (state = "dispatching"), counted |-> (state \notin Terminal), guards |-> 0]

Insert(s, e) ==
    /\ entry' = [entry EXCEPT ![s] = e]
    /\ disk' = [disk EXCEPT ![s] = Recorded(@, e)]
    /\ active' = IF e.counted THEN active + 1 ELSE active
    /\ reserved' = reserved + 1

\* adopt_no_unit, where deleting the directory comes out as r; a record that ran
\* is adopted as Running and then lost.
AdoptNoUnit(s, r) ==
    IF disk[s].state # "dispatching"
    THEN /\ Insert(s, Adopted(s, "cancelled", TRUE))
         /\ expired' = expired \ {s} /\ r = "ok"
    ELSE IF s \notin late \/ r = "fault"
    THEN Insert(s, Adopted(s, "dispatching", disk[s].lost)) /\ UNCHANGED expired /\ (r = "ok" \/ s \in late)
    ELSE DeleteDir(s, r) /\ UNCHANGED <<entry, active, reserved, expired>>

\* adopt_slot, the reconciliation matrix: the status of now and the liveness of
\* the list.
AdoptSlot(s) ==
    /\ boot.pc = "adopt" /\ s \in boot.todo
    /\ boot' = [boot EXCEPT !.todo = @ \ {s}]
    /\ LET d == disk[s]
           live == boot.live[s]
       IN \E q \in StopResult, r \in {"ok", "fault"}, status \in ReadStatus(s) :
          LET read == ReadCost(s, status)
              spend(n, m) == faults' = faults + Cost(read) + Cost(n) + Cost(m) /\ faults' <= MaxFaults
              outcome == d.id # NoExec /\ status \notin {"none", "started"}
              open == d.id # NoExec /\ status \in {"none", "started"}
          IN
          \/ /\ d.id = NoExec
             /\ DeleteDir(s, r) /\ spend(r, "ok")
             /\ UNCHANGED <<entry, active, reserved, unit, expired>>
          \/ /\ outcome /\ status = "infra_failed"
             /\ Stop(s, q) /\ DeleteDir(s, r) /\ spend(q, r)
             /\ UNCHANGED <<entry, active, reserved, expired>>
          \/ /\ outcome /\ status \in Terminal
             /\ IF live \in {"live", "orphan", "foreign"} THEN Stop(s, q) /\ spend(q, "ok")
                ELSE UNCHANGED unit /\ spend("ok", "ok")
             /\ Insert(s, Adopted(s, status, d.lost))
             /\ expired' = IF d.state \in Terminal THEN expired ELSE expired \ {s}
          \/ /\ open /\ live \in {"foreign", "orphan"}
             /\ StopChecked(s, q)
             /\ IF q = "ok" THEN AdoptNoUnit(s, r) /\ spend(r, "ok")
                ELSE Insert(s, Adopted(s, "running", d.lost)) /\ spend(q, "ok") /\ UNCHANGED expired
          \/ /\ open /\ live = "absent"
             /\ AdoptNoUnit(s, r) /\ spend(r, "ok") /\ UNCHANGED unit
          \/ /\ open /\ live \in {"live", "unknown"}
             /\ LET held == live = "unknown" /\ d.state = "dispatching"
                IN Insert(s, Adopted(s, IF held THEN "dispatching" ELSE "running", d.lost))
             /\ spend("ok", "ok") /\ UNCHANGED <<unit, expired>>
    /\ UNCHANGED <<tombstones, create, call, late, crashes>>

\* Units that were listed and whose slot was not adopted are stopped.
StartupOrphans ==
    /\ boot.pc = "adopt" /\ boot.todo = {}
    /\ boot' = [boot EXCEPT !.pc = "orphans", !.todo = {s \in boot.units : ~Taken(s)}]
    /\ UNCHANGED <<registry, create, call, disk, unit, clock, bounds>>

StartupStop ==
    /\ boot.pc = "orphans"
    /\ IF boot.todo = {} THEN boot' = [Down EXCEPT !.pc = "up"] /\ UNCHANGED unit /\ NoFault
       ELSE \E s \in boot.todo : StopOnly(s) /\ boot' = [boot EXCEPT !.todo = @ \ {s}]
    /\ UNCHANGED <<registry, create, call, disk, clock, crashes>>

Startup == StartupList \/ (\E s \in Slot : AdoptSlot(s)) \/ StartupOrphans \/ StartupStop
-----------------------------------------------------------------------------
(* Time.                                                                       *)

\* dispatch_deadline_unix passes; a systemd-run that has not registered by then
\* never will.  Startup's adoption takes less than the 30 seconds: the deadline
\* does not pass between its list of the units and its use.
DeadlinePasses(s) ==
    /\ s \notin late /\ boot.pc # "adopt"
    /\ entry[s].state = "dispatching" \/ disk[s].state = "dispatching"
    /\ late' = late \union {s}
    /\ create' = [create EXCEPT ![s] = IF @ = "helper" THEN "none" ELSE @]
    /\ UNCHANGED <<registry, call, disk, unit, expired, boot, bounds>>

\* A terminal record outlives its TTL of 30 minutes: no call that saw the record
\* live is still under way.
Expire(s) ==
    /\ s \notin expired /\ IsTerminal(s)
    /\ \A a \in Actor : call[a].slot = s => call[a].pc \in {"idle", "read"}
    /\ expired' = expired \union {s}
    /\ UNCHANGED <<registry, create, call, disk, unit, late, boot, bounds>>

RegistryNext ==
    \/ \E x \in Exec : ReserveCreate(x)
    \/ \E s \in Slot : Create(s) \/ Runner(s) \/ HelperRegisters(s) \/ DeadlinePasses(s) \/ Expire(s)
    \/ \E c \in Caller, x \in Exec : Inspect(c, x) \/ Cancel(c, x) \/ ReadLogs(c, x)
    \/ \E a \in Actor : Reconcile(a)
    \/ \E c \in Caller : DropGuard(c)
    \/ Reap \/ Crash \/ Startup

RegistrySpec == RegistryInit /\ [][RegistryNext]_vars

\* Tasks run and systemctl calls return; the reaper comes back to every slot, and
\* systemd answers again and again; runners run; deadlines pass.
RegistryFairness ==
    /\ WF_vars(Startup) /\ WF_vars(Reap) /\ SF_vars(HoldUnits)
    /\ \A a \in Actor : WF_vars(Reconcile(a))
    /\ \A s \in Slot :
          /\ WF_vars(Create(s)) /\ SF_vars(ReapSlot(s)) /\ WF_vars(DeadlinePasses(s))
          /\ WF_vars(RunnerSpawn(s) \/ RunnerStarted(s) \/ RunnerPublish(s) \/ RunnerExit(s))

RegistryLiveSpec == RegistrySpec /\ RegistryFairness
-----------------------------------------------------------------------------
\* The counters are what the entries say: a live record holds exactly one active
\* unit, a terminal one none, and every entry one log reservation, whichever
\* actors resolved it, how often, and through which restarts (release_active,
\* remove_entry, insert_adopted).
AccountsExact ==
    /\ active = Cardinality({s \in Slot : entry[s].counted})
    /\ reserved = Cardinality({s \in Slot : Taken(s)})
    /\ \A s \in Slot : entry[s].counted <=> Taken(s) /\ ~IsTerminal(s)

\* A terminal record that is not lost says what that exec's own runner published:
\* no record takes the status of a previous occupant of its slot or of a runner
\* that outlived its entry (persist_dispatch's scrub, the exclusive unit name).
OutcomeIsOwn ==
    \A s \in Slot : IsTerminal(s) /\ ~entry[s].lost =>
        disk[s].dir /\ disk[s].by = entry[s].id /\ disk[s].status = entry[s].state

\* "guestd never reports a terminal state while untracked work runs": no workload
\* of an exec runs once its record is lost.
LostIsDead ==
    \A s \in Slot : entry[s].lost /\ IsTerminal(s) =>
        \A t \in Slot : unit[t].id = entry[s].id => ~unit[t].work

\* A unit belongs to the exec that holds its slot or to no exec the registry
\* shows: a visible record is never served by another exec's runner.
UnitIsOwn ==
    \A s \in Slot : Up /\ Taken(s) /\ ~Hidden(s) /\ Loaded(unit[s]) => unit[s].id = entry[s].id

\* While guestd runs, a terminal record is final, and a visible record leaves the
\* registry only when it is terminal and past its TTL: a running exec is never
\* reaped.
TerminalFinal ==
    [][Up /\ boot'.pc = "up" =>
         \A s \in Slot :
            /\ IsTerminal(s) => entry'[s].state \in {entry[s].state, "free"}
            /\ Taken(s) /\ ~Hidden(s) /\ entry'[s].state = "free" => IsTerminal(s) /\ s \in expired]_vars

\* A log read under a guard reads its own exec's files: until the guard is dropped
\* the entry stays, and its directory neither goes nor changes hands.
GuardedLogsStay ==
    \A c \in Caller : call[c].pc = "read" =>
        LET s == call[c].slot IN
        /\ entry[s].id = call[c].id /\ entry[s].guards > 0
        /\ disk[s].dir /\ disk[s].id = call[c].id /\ disk[s].log \in {NoExec, call[c].id}

\* Every create ends, by committing or by tearing down, and every recovered hold
\* is resolved, so that no reservation stays behind a flag that hides it from
\* every client ("a held dispatch is never skipped forever"); only the failed
\* unit of a runner that died may keep a hold, for as long as stopping it fails.
HiddenResolves ==
    \A s \in Slot : Hidden(s) ~> ~Hidden(s) \/ (entry[s].hold /\ unit[s].run = "failed")

\* "A published terminal status wins regardless of unit liveness": no record is
\* lost while its own runner's terminal status lies in the directory.
PublishedStatusWins ==
    \A s \in Slot : entry[s].lost /\ entry[s].state = "cancelled" =>
        ~(disk[s].by = entry[s].id /\ disk[s].status \in Terminal)
=============================================================================
