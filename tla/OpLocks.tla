------------------------------ MODULE OpLocks ------------------------------
(***************************************************************************)
(* The in-process operation locks of d2bd (packages/d2bd/src/concurrency.rs *)
(* and the dispatch boundary in packages/d2bd/src/lib.rs).                  *)
(*                                                                         *)
(* Every connection-handler thread acquires the lock of its request's      *)
(* class once, in dispatch_request, holds it across the whole operation,   *)
(* and drops it when the operation returns.  A read-only verb takes no     *)
(* lock; a per-VM verb takes the shared side of the global lock and then   *)
(* the mutex of its VM, created on first use in the per_vm map; a global   *)
(* verb takes the exclusive side of the global lock.                       *)
(*                                                                         *)
(* The global lock is a parking_lot RwLock: a writer first claims the      *)
(* writer bit, which blocks every later reader, and then waits for the     *)
(* readers already inside to leave.                                        *)
(***************************************************************************)
CONSTANTS
    Worker,     \* connection-handler threads
    Vm,         \* VM names a request may carry
    NoWorker    \* "nobody holds this lock"

ASSUME NoWorkerAssumption == NoWorker \notin Worker

\* OpLockClass.  A class is a record so that PerVm carries its VM.
ReadOnly == [kind |-> "ReadOnly"]
Global == [kind |-> "Global"]
PerVm(v) == [kind |-> "PerVm", vm |-> v]
OpLockClass == {ReadOnly, Global} \union {PerVm(v) : v \in Vm}

VARIABLES
    stage,        \* where each worker is in dispatch_request
    class,        \* lock class of the worker's current request
    globalWriter, \* worker owning the writer bit of the global RwLock
    readers,      \* workers inside the shared side of the global RwLock
    perVm,        \* VMs with a mutex in the per_vm map
    vmHolder      \* holder of each VM's mutex

lockVars == <<stage, class, globalWriter, readers, perVm, vmHolder>>

LockPC == {"idle", "wantRead", "wantMap", "wantVm", "wantWrite", "drain", "held",
       "dropVm"}

\* The type invariant.
LockTypeOK ==
    /\ stage \in [Worker -> LockPC]
    /\ class \in [Worker -> OpLockClass]
    /\ globalWriter \in Worker \union {NoWorker}
    /\ readers \subseteq Worker
    /\ perVm \subseteq Vm
    /\ vmHolder \in [Vm -> Worker \union {NoWorker}]

LockInit ==
    /\ stage = [w \in Worker |-> "idle"]
    /\ class = [w \in Worker |-> ReadOnly]
    /\ globalWriter = NoWorker
    /\ readers = {}
    /\ perVm = {}
    /\ vmHolder = [v \in Vm |-> NoWorker]

\* dispatch_request reaches op_locks.acquire with the class of the verb.  A
\* read-only verb gets OpLockGuard::None at once.
Request(w, c) ==
    /\ stage[w] = "idle"
    /\ class' = [class EXCEPT ![w] = c]
    /\ stage' = [stage EXCEPT ![w] = IF c.kind = "ReadOnly" THEN "held"
                                     ELSE IF c.kind = "PerVm" THEN "wantRead" ELSE "wantWrite"]
    /\ UNCHANGED <<globalWriter, readers, perVm, vmHolder>>

\* Mutant: a reader that ignores the writer bit.
ReadGlobalIgnoringWriter(w) ==
    /\ stage[w] = "wantRead"
    /\ readers' = readers \union {w}
    /\ stage' = [stage EXCEPT ![w] = "wantMap"]
    /\ UNCHANGED <<class, globalWriter, perVm, vmHolder>>

\* global.read_arc(): blocked while the writer bit is set.
ReadGlobal(w) ==
    /\ stage[w] = "wantRead"
    /\ globalWriter = NoWorker
    /\ readers' = readers \union {w}
    /\ stage' = [stage EXCEPT ![w] = "wantMap"]
    /\ UNCHANGED <<class, globalWriter, perVm, vmHolder>>

\* per_vm.lock() and map.entry(vm).or_insert_with(..).  The map guard drops at
\* the end of the block, which takes no other lock, so the block is one step.
GetVmLock(w) ==
    /\ stage[w] = "wantMap"
    /\ perVm' = perVm \union {class[w].vm}
    /\ stage' = [stage EXCEPT ![w] = "wantVm"]
    /\ UNCHANGED <<class, globalWriter, readers, vmHolder>>

\* Mutant: each request gets a mutex of its own instead of the map's.
LockVmPrivate(w) ==
    /\ stage[w] = "wantVm"
    /\ vmHolder' = [vmHolder EXCEPT ![class[w].vm] = w]
    /\ stage' = [stage EXCEPT ![w] = "held"]
    /\ UNCHANGED <<class, globalWriter, readers, perVm>>

\* vm_lock.lock_arc()
LockVm(w) ==
    /\ stage[w] = "wantVm"
    /\ vmHolder[class[w].vm] = NoWorker
    /\ vmHolder' = [vmHolder EXCEPT ![class[w].vm] = w]
    /\ stage' = [stage EXCEPT ![w] = "held"]
    /\ UNCHANGED <<class, globalWriter, readers, perVm>>

\* global.write_arc(), first half: claim the writer bit.
ClaimWriter(w) ==
    /\ stage[w] = "wantWrite"
    /\ globalWriter = NoWorker
    /\ globalWriter' = w
    /\ stage' = [stage EXCEPT ![w] = "drain"]
    /\ UNCHANGED <<class, readers, perVm, vmHolder>>

\* global.write_arc(), second half: wait for the readers to leave.
DrainReaders(w) ==
    /\ stage[w] = "drain"
    /\ readers = {}
    /\ stage' = [stage EXCEPT ![w] = "held"]
    /\ UNCHANGED <<class, globalWriter, readers, perVm, vmHolder>>

\* Mutant: the guard forgets the shared side of the global lock.
ReleaseKeepingRead(w) ==
    /\ stage[w] = "held"
    /\ stage' = [stage EXCEPT ![w] = IF class[w].kind = "PerVm" THEN "dropVm" ELSE "idle"]
    /\ globalWriter' = IF globalWriter = w THEN NoWorker ELSE globalWriter
    /\ UNCHANGED <<class, readers, perVm, vmHolder>>

\* dispatch_request_locked returned and _op_lock drops.  For a per-VM verb the
\* guard's fields drop in declaration order: `global` first, `vm` after it.
Release(w) ==
    /\ stage[w] = "held"
    /\ stage' = [stage EXCEPT ![w] = IF class[w].kind = "PerVm" THEN "dropVm" ELSE "idle"]
    /\ globalWriter' = IF globalWriter = w THEN NoWorker ELSE globalWriter
    /\ readers' = readers \ {w}
    /\ UNCHANGED <<class, perVm, vmHolder>>

UnlockVm(w) ==
    /\ stage[w] = "dropVm"
    /\ vmHolder' = [vmHolder EXCEPT ![class[w].vm] = NoWorker]
    /\ stage' = [stage EXCEPT ![w] = "idle"]
    /\ UNCHANGED <<class, globalWriter, readers, perVm>>

Acquire(w) ==
    \/ ReadGlobal(w) \/ GetVmLock(w) \/ LockVm(w)
    \/ ClaimWriter(w) \/ DrainReaders(w)

Drop(w) == Release(w) \/ UnlockVm(w)

LockNext ==
    \E w \in Worker :
        \/ \E c \in OpLockClass : Request(w, c)
        \/ Acquire(w)
        \/ Drop(w)

\* Every operation ends (each wait in it has a deadline), and parking_lot's
\* locks are eventually fair: a thread parked on a lock that is released
\* again and again is handed the lock.  A worker is parked on at most one lock,
\* so strong fairness of Acquire(w) is strong fairness of each of its disjuncts.
LockFairness == \A w \in Worker : SF_lockVars(Acquire(w)) /\ WF_lockVars(Drop(w))

LockSafety == LockInit /\ [][LockNext]_lockVars

LockSpec == LockSafety /\ LockFairness
-----------------------------------------------------------------------------
\* The operation of w is running: it is inside dispatch_request_locked.
Running(w) == stage[w] = "held"

\* concurrency.rs promises that "a mutating lifecycle op cannot race another
\* op on the same VM, and a global op is mutually exclusive with every per-VM
\* op": no two running operations have conflicting classes.
MutualExclusion ==
    \A w, u \in Worker :
        (w # u /\ Running(w) /\ Running(u)) =>
            /\ ~(class[w] = Global /\ class[u].kind \in {"Global", "PerVm"})
            /\ ~(class[w].kind = "PerVm" /\ class[w] = class[u])

\* The inductive invariant behind MutualExclusion.  Its parts say which lock
\* each program point holds and, last, that a running global operation has
\* drained the readers.
ClassAtPc ==
    \A w \in Worker :
        /\ stage[w] \in {"wantRead", "wantMap", "wantVm", "dropVm"} => class[w].kind = "PerVm"
        /\ stage[w] \in {"wantWrite", "drain"} => class[w].kind = "Global"

ReaderAtPc ==
    \A w \in Worker :
        w \in readers <=> \/ stage[w] \in {"wantMap", "wantVm"}
                          \/ stage[w] = "held" /\ class[w].kind = "PerVm"

WriterAtPc ==
    \A w \in Worker :
        globalWriter = w <=> \/ stage[w] = "drain"
                             \/ stage[w] = "held" /\ class[w].kind = "Global"

VmHolderAtPc ==
    \A w \in Worker, v \in Vm :
        vmHolder[v] = w <=> stage[w] \in {"held", "dropVm"} /\ class[w] = PerVm(v)

GlobalDrained ==
    \A w \in Worker : (stage[w] = "held" /\ class[w].kind = "Global") => readers = {}

LockInv == ClassAtPc /\ ReaderAtPc /\ WriterAtPc /\ VmHolderAtPc /\ GlobalDrained

\* The refinement: what a client of the locks sees of a worker.
LockPhase ==
    [w \in Worker |->
        IF stage[w] \in {"idle", "dropVm"} THEN "idle"
        ELSE IF stage[w] = "held" THEN "running" ELSE "pending"]

Exclusion == INSTANCE OpExclusion WITH phase <- LockPhase

\* OpLocks implements the lock-free promise: every step of the locks is a step
\* of OpExclusion or changes nothing a client sees.
ImplementsExclusion == Exclusion!AbsSafety

\* "The single lock ordering (global-read THEN per-VM) is acyclic, so per-VM and
\* global ops never deadlock", and no verb is starved: a global verb by a stream
\* of per-VM verbs, or a per-VM verb by its VM's other requests.
EveryRequestRuns ==
    \A w \in Worker : LockPhase[w] = "pending" ~> LockPhase[w] = "running"
=============================================================================
