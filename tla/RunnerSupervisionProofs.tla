---------------------- MODULE RunnerSupervisionProofs ----------------------
(***************************************************************************)
(* Proofs about RunnerSupervision for any number of runners and pids, any   *)
(* bounds and any set of faults.                                           *)
(***************************************************************************)
EXTENDS RunnerSupervision, RunnerBrokerProofs, WellFoundedInduction

\* What is written to the table's file later is as good as what is there.
CopiesAreOwn ==
    \A q, r \in Runner : \A i \in {copy[q][r]} \ {None} : Recorded(r, i)

\* Where a thread works on the process it spawned.
Spawned == {"register", "registerWrite", "runnerSnapshot", "cleanup", "cleanupWrite",
            "unregistered", "unregisteredOpen", "unregisteredWait"}

\* What the program points say of the locals and of the adoption.  The third
\* conjunct is why an adopted pidfd is the snapshot's process: the broker serves
\* the request of the present adoption, none of an earlier one.
ThreadLocals ==
    \A r \in Runner :
        /\ pc[r] \in Spawned => mine[r] # None
        /\ pc[r] \in {"adoptOpen", "adoptVerify"} =>
            up = "adopt" /\ r \in adopting /\ snapDisk[r] # None
        /\ (pc[r] = "adoptVerify" /\ spc = "verify" /\ sid = r) => want = snapDisk[r]
        /\ up # "up" => pc[r] \in {"idle", "adoptOpen", "adoptVerify"}
        /\ up = "down" => pc[r] = "idle"

\* The records are own, in memory, on disk and on their way there.
RecordsInv == BrokerInv /\ SupervisionTypeOK /\ RecordsAreOwn /\ CopiesAreOwn /\ ThreadLocals
-----------------------------------------------------------------------------
\* Where a thread has a copy of the table to write; has no process registered
\* yet, has one, has taken it out again; registers it; takes it out of the table,
\* the broker and the files.
Writing == {"pruneWrite", "registerWrite", "cleanupWrite", "finalWrite"}
Before == {"spawn", "spawning", "register"}
With == {"registerWrite", "runnerSnapshot", "ready", "signal", "brokerSignal", "brokerOpen",
         "refresh", "wait", "poll", "finish"}
After == {"cleanupWrite", "finishBroker", "finishSnapshot", "final", "finalWrite"}
Registering == {"registerWrite", "runnerSnapshot", "cleanup"}
Finishing == {"finish", "finishBroker", "finishSnapshot", "final", "finalWrite"}
-----------------------------------------------------------------------------
\* A nonempty set of positions has a last one.
LEMMA LastPosition ==
    ASSUME NEW n \in Nat, NEW T \in SUBSET (1..n), T # {}
    PROVE  \E k \in T : \A j \in T : j <= k
<1> DEFINE U == {n - k : k \in T}
           R == OpToRel(<, Nat)
<1>0. \A k \in T : k \in Nat /\ k <= n /\ n - k \in Nat
  OBVIOUS
<1>1. U \subseteq Nat /\ U # {} /\ \A j \in T : n - j \in U
  BY <1>0, Zenon
<1>2. \A x, y \in Nat : y < x => <<y, x>> \in R
  BY Zenon DEF OpToRel
<1>3. IsWellFoundedOn(R, Nat)
  BY NatLessThanWellFounded, Zenon
<1> HIDE DEF R
<1>4. PICK x \in U : \A y \in U : ~(<<y, x>> \in R)
  <2> HIDE DEF U
  <2> QED BY <1>1, <1>3, WFMin, Zenon
<1>5. PICK k \in T : x = n - k
  BY Zenon
<1>6. \A j \in T : ~(n - j < x)
  BY <1>0, <1>1, <1>2, <1>4, Zenon
<1> QED BY <1>0, <1>5, <1>6

\* The elements of a sequence.
LEMMA ElementType ==
    ASSUME NEW S, NEW b \in Seq(S), NEW k \in DOMAIN b
    PROVE  b[k] \in S
OBVIOUS

\* BrokerReapLog::insert keeps the type of the log.
LEMMA InsertedType ==
    ASSUME BrokerTypeOK, SupervisionTypeOK
    PROVE  Inserted(buffer) \in [Pid -> Runner \union {None}]
<1> SUFFICES ASSUME NEW p \in Pid PROVE Inserted(buffer)[p] \in Runner \union {None}
  BY Zenon DEF Inserted
<1> DEFINE of == {k \in DOMAIN buffer : buffer[k].pid = p}
<1>1. CASE of = {}
  BY <1>1, Zenon DEF Inserted, SupervisionTypeOK
<1>2. CASE of # {}
  <2>1. Len(buffer) \in Nat /\ DOMAIN buffer = 1..Len(buffer)
    BY DEF BrokerTypeOK
  <2>2. \E k \in of : \A j \in of : j <= k
    BY <1>2, <2>1, LastPosition, Zenon
  <2> DEFINE k == CHOOSE k \in of : \A j \in of : j <= k
  <2>3. k \in of
    BY <2>2, Zenon
  <2>4. buffer[k].id \in Runner
    <3> HIDE DEF k
    <3>1. k \in DOMAIN buffer
      BY <2>3, Zenon
    <3> HIDE DEF of
    <3>2. buffer[k] \in [id : Runner, pid : Pid]
      <4>1. buffer \in Seq([id : Runner, pid : Pid])
        BY Zenon DEF BrokerTypeOK
      <4> QED BY <3>1, <4>1, ElementType, Zenon
    <3> QED BY <3>2, Zenon
  <2>5. Inserted(buffer)[p] = buffer[k].id
    BY <1>2, Zenon DEF Inserted
  <2> QED BY <2>4, <2>5, Zenon
<1> QED BY <1>1, <1>2, Zenon

\* So does a poll, answered or not.
LEMMA PolledType ==
    ASSUME BrokerTypeOK, SupervisionTypeOK, NEW l, Polled(l)
    PROVE  l \in [Pid -> Runner \union {None}]
BY InsertedType, Zenon DEF Polled, SupervisionTypeOK
-----------------------------------------------------------------------------
\* The moves of a thread that change neither the table nor a file: where they
\* lead from and to.
QuietMove(from, to) ==
    /\ from \notin Writing \union {"pruneDrop"}
    /\ to \notin Writing \union {"pruneDrop", "final", "adoptOpen", "adoptVerify"}
    /\ to \in Spawned => from \in Spawned
    /\ to \in With => from \in With
    /\ to \in After => from \in After
    /\ to = "cleanup" => "io" \in Faults
    /\ to \in Before \union {"check"} => from \in Before \union {"check"}
    /\ from \in Registering => to \in Registering
    /\ from \in Finishing => to \in Finishing

Quiet(r) ==
    /\ up = "up"
    /\ UNCHANGED <<up, crashes, adopting, table, disk, snapDisk, guard, copy, dead>>
    /\ pc' \in [Runner -> PC] /\ \A q \in Runner \ {r} : pc'[q] = pc[q]
    /\ QuietMove(pc[r], pc'[r])
    /\ (pc'[r] \in Before /\ pc[r] \notin Before) => table[r] = None
    /\ mine' \in Table
    /\ \A q \in Runner : mine'[q] = mine[q] \/ (q = r /\ pc'[r] = "idle" /\ mine'[q] = None)
    /\ phase' \in [Runner -> {"term", "kill"}]
    /\ log' \in [Pid -> Runner \union {None}]

QuietAction(r) ==
    \/ StartVm(r) \/ CheckDuplicate(r) \/ SpawnRequest(r) \/ SpawnRefused(r)
    \/ SpawnError(r) \/ SpawnTimeout(r) \/ RegisterFails(r) \/ RunnerSnapshotFails(r)
    \/ StopUnregisteredSignal(r) \/ StopUnregisteredOpen(r) \/ StopUnregisteredOpened(r)
    \/ StopUnregisteredPoll(r) \/ StopUnregisteredReaped(r) \/ FinishUnregistered(r)
    \/ StopUnregisteredEscalates(r) \/ StopUnregisteredGivesUp(r) \/ StartReady(r)
    \/ StartRollback(r) \/ Signal(r) \/ SignalNotFound(r) \/ SignalViaBroker(r)
    \/ SignalViaBrokerFails(r) \/ SignalOpened(r) \/ RefreshReapLog(r) \/ WaitAlive(r)
    \/ WaitNotFound(r) \/ PollGone(r) \/ PollReaped(r) \/ PollAgain(r) \/ TermTimeout(r)
    \/ KillTimeout(r) \/ FinishBroker(r)

\* They are these actions.
LEMMA QuietSteps ==
    ASSUME BrokerTypeOK, SupervisionTypeOK, NEW r \in Runner, QuietAction(r)
    PROVE  Quiet(r)
<1> USE DEF Quiet, QuietMove, PC, Writing, Spawned, With, After, Before, Registering, Finishing,
            Step, Goto, lifeVars, fileVars, Removed, Table
<1>a. /\ table \in Table /\ mine \in Table /\ pc \in [Runner -> PC]
      /\ phase \in [Runner -> {"term", "kill"}] /\ log \in [Pid -> Runner \union {None}]
  BY Zenon DEF SupervisionTypeOK
<1>b. \A l : Polled(l) => l \in [Pid -> Runner \union {None}]
  BY PolledType, Zenon
<1>c. Inserted(buffer) \in [Pid -> Runner \union {None}]
  BY InsertedType, Zenon
<1> USE <1>a
<1>1. CASE StartVm(r)
  BY <1>1, Zenon DEF StartVm
<1>2. CASE CheckDuplicate(r)
  BY <1>2, Zenon DEF CheckDuplicate
<1>3. CASE SpawnRequest(r)
  BY <1>3, Zenon DEF SpawnRequest
<1>4. CASE SpawnRefused(r)
  BY <1>4, Zenon DEF SpawnRefused
<1>5. CASE SpawnError(r)
  BY <1>5, Zenon DEF SpawnError
<1>6. CASE SpawnTimeout(r)
  BY <1>6, Zenon DEF SpawnTimeout
<1>7. CASE RegisterFails(r)
  BY <1>7, Zenon DEF RegisterFails, Abandon
<1>8. CASE RunnerSnapshotFails(r)
  BY <1>8, Zenon DEF RunnerSnapshotFails
<1>9. CASE StopUnregisteredSignal(r)
  BY <1>9, Zenon DEF StopUnregisteredSignal
<1>10. CASE StopUnregisteredOpen(r)
  BY <1>10, Zenon DEF StopUnregisteredOpen
<1>11. CASE StopUnregisteredOpened(r)
  BY <1>11, Zenon DEF StopUnregisteredOpened
<1>12. CASE StopUnregisteredPoll(r)
  BY <1>12, <1>b, Zenon DEF StopUnregisteredPoll
<1>13. CASE StopUnregisteredReaped(r)
  BY <1>13, <1>a, <1>c DEF StopUnregisteredReaped, TakeFor
<1>14. CASE FinishUnregistered(r)
  BY <1>14, Zenon DEF FinishUnregistered
<1>15. CASE StopUnregisteredEscalates(r)
  BY <1>15, <1>b, Zenon DEF StopUnregisteredEscalates
<1>16. CASE StopUnregisteredGivesUp(r)
  BY <1>16, <1>b, Zenon DEF StopUnregisteredGivesUp
<1>17. CASE StartReady(r)
  BY <1>17, Zenon DEF StartReady
<1>18. CASE StartRollback(r)
  BY <1>18, Zenon DEF StartRollback
<1>19. CASE Signal(r)
  BY <1>19 DEF Signal
<1>20. CASE SignalNotFound(r)
  BY <1>20, Zenon DEF SignalNotFound
<1>21. CASE SignalViaBroker(r)
  BY <1>21 DEF SignalViaBroker
<1>22. CASE SignalViaBrokerFails(r)
  BY <1>22, Zenon DEF SignalViaBrokerFails
<1>23. CASE SignalOpened(r)
  BY <1>23 DEF SignalOpened
<1>24. CASE RefreshReapLog(r)
  BY <1>24, <1>b, Zenon DEF RefreshReapLog
<1>25. CASE WaitAlive(r)
  BY <1>25, Zenon DEF WaitAlive
<1>26. CASE WaitNotFound(r)
  BY <1>26, Zenon DEF WaitNotFound
<1>27. CASE PollGone(r)
  BY <1>27, Zenon DEF PollGone
<1>28. CASE PollReaped(r)
  BY <1>28, <1>c, Zenon DEF PollReaped, TakeFor
<1>29. CASE PollAgain(r)
  BY <1>29, <1>c, Zenon DEF PollAgain, TakeFor
<1>30. CASE TermTimeout(r)
  BY <1>30, Zenon DEF TermTimeout
<1>31. CASE KillTimeout(r)
  BY <1>31, Zenon DEF KillTimeout
<1>32. CASE FinishBroker(r)
  BY <1>32, Zenon DEF FinishBroker
<1> QED BY <1>1, <1>2, <1>3, <1>4, <1>5, <1>6, <1>7, <1>8, <1>9, <1>10, <1>11, <1>12, <1>13, <1>14, <1>15, <1>16, <1>17, <1>18, <1>19, <1>20, <1>21, <1>22, <1>23, <1>24, <1>25, <1>26, <1>27, <1>28, <1>29, <1>30, <1>31, <1>32, Zenon DEF QuietAction
-----------------------------------------------------------------------------
\* Every step of the daemon's side asks the broker for nothing, or for something
\* BrokerNext allows; the process it names is one it has on record.
LEMMA ContractStep ==
    ASSUME RecordsInv, Next
    PROVE  [BrokerNext]_brokerVars
<1> DEFINE Asks == BrokerNext \/ UNCHANGED brokerVars
<1> SUFFICES Asks
  BY Zenon
<1>1. ASSUME NEW r \in Runner, NEW i \in Inst, Recorded(r, i), OpenPidfd(r, i) PROVE Asks
  BY <1>1, Zenon DEF BrokerNext
<1>2. PollChildReaped \/ RpcFails => Asks
  BY Zenon DEF BrokerNext, RpcFails
<1>3. ASSUME NEW l, Polled(l) PROVE Asks
  BY <1>2, <1>3, Zenon DEF Polled, PollLost
<1>4. ASSUME NEW r \in Runner, OpenSucceeds(r) \/ OpenFails(r) PROVE Asks
  BY <1>2, <1>4, Zenon DEF OpenSucceeds, OpenFails, BrokerNext
<1>5. ASSUME NEW r \in Runner, Deregister(r) \/ SpawnReserve(r) \/ SpawnDone PROVE Asks
  BY <1>5, Zenon DEF BrokerNext
<1>6. /\ table \in Table /\ snapDisk \in Table /\ mine \in Table
      /\ RecordsAreOwn /\ ThreadLocals
  BY Zenon DEF RecordsInv, SupervisionTypeOK
<1>7. ASSUME NEW r \in Runner,
             \/ StartVm(r) \/ StopVm(r) \/ PruneScan(r) \/ PruneDrop(r) \/ PruneWrite(r)
             \/ CheckDuplicate(r) \/ RegisterEntry(r) \/ RegisterEnvEntry(r)
             \/ RegisterFails(r) \/ RegisterWrite(r) \/ RegisterWriteFails(r)
             \/ WriteRunnerSnapshot(r) \/ RunnerSnapshotFails(r) \/ CleanupEntry(r)
             \/ CleanupWrite(r) \/ StopUnregisteredSignal(r) \/ StartReady(r)
             \/ StartRollback(r) \/ Signal(r) \/ SignalNotFound(r) \/ WaitReapLog(r)
             \/ WaitGone(r) \/ WaitAlive(r) \/ WaitNotFound(r) \/ PollGone(r)
             \/ TermTimeout(r) \/ KillTimeout(r) \/ FinishEntry(r) \/ FinishSnapshot(r)
             \/ FinalSnapshot(r) \/ FinalWrite(r) \/ AdoptClassify(r) \/ AdoptMissing(r)
             \/ AdoptQuarantine(r) 
      PROVE  Asks
  BY <1>7, Zenon DEF
     StartVm, StopVm, PruneScan, PruneDrop, PruneWrite, CheckDuplicate, RegisterEntry,
     RegisterEnvEntry, RegisterFails, RegisterWrite, RegisterWriteFails,
     WriteRunnerSnapshot, RunnerSnapshotFails, CleanupEntry, CleanupWrite,
     StopUnregisteredSignal, StartReady, StartRollback, Signal, SignalNotFound,
     WaitReapLog, WaitGone, WaitAlive, WaitNotFound, PollGone, TermTimeout, KillTimeout,
     FinishEntry, FinishSnapshot, FinalSnapshot, FinalWrite, AdoptClassify, AdoptMissing,
     AdoptQuarantine
<1>8. ASSUME NEW r \in Runner,
             \/ SpawnRequest(r) \/ SpawnRefused(r) \/ SpawnReply(r) \/ SpawnError(r)
             \/ SpawnTimeout(r) \/ FinishUnregistered(r) \/ FinishBroker(r)
      PROVE  Asks
  BY <1>2, <1>5, <1>8, Zenon DEF SpawnRequest, SpawnRefused, SpawnReply, SpawnError, SpawnTimeout,
     FinishUnregistered, FinishBroker
<1>9. ASSUME NEW r \in Runner, StopUnregisteredOpen(r) PROVE Asks
  <2>1. mine[r] \in Inst /\ Recorded(r, mine[r]) /\ OpenPidfd(r, mine[r])
    BY <1>6, <1>9, Zenon DEF StopUnregisteredOpen, Step, Goto, Table, RecordsAreOwn, ThreadLocals, Spawned
  <2> QED BY <1>1, <2>1, Zenon
<1>10. ASSUME NEW r \in Runner, SignalViaBroker(r) PROVE Asks
  <2>1. CASE UNCHANGED brokerVars
    BY <2>1, Zenon
  <2>2. CASE table[r] # None /\ OpenPidfd(r, table[r])
    <3>1. table[r] \in Inst /\ Recorded(r, table[r])
      BY <1>6, <2>2 DEF Table, RecordsAreOwn
    <3> QED BY <1>1, <2>2, <3>1, Zenon
  <2> QED BY <1>10, <2>1, <2>2, Zenon DEF SignalViaBroker
<1>11. ASSUME NEW r \in Runner, AdoptOpen(r) PROVE Asks
  <2>1. snapDisk[r] \in Inst /\ Recorded(r, snapDisk[r]) /\ OpenPidfd(r, snapDisk[r])
    BY <1>6, <1>11, Zenon DEF AdoptOpen, Table, RecordsAreOwn, ThreadLocals
  <2> QED BY <1>1, <2>1, Zenon
<1>12. ASSUME NEW r \in Runner,
              \/ StopUnregisteredOpened(r) \/ SignalOpened(r) \/ AdoptRunner(r) \/ AdoptLeft(r)
              \/ SignalViaBrokerFails(r)
       PROVE  Asks
  BY <1>2, <1>4, <1>12, Zenon DEF StopUnregisteredOpened, SignalOpened, AdoptRunner, AdoptLeft,
     SignalViaBrokerFails
<1>13. ASSUME NEW r \in Runner,
              \/ StopUnregisteredPoll(r) \/ StopUnregisteredReaped(r) \/ RefreshReapLog(r)
              \/ StopUnregisteredEscalates(r) \/ StopUnregisteredGivesUp(r)
       PROVE  Asks
  BY <1>3, <1>13, Zenon DEF StopUnregisteredPoll, StopUnregisteredReaped, RefreshReapLog,
     StopUnregisteredEscalates, StopUnregisteredGivesUp
<1>14. ASSUME NEW r \in Runner, PollReaped(r) \/ PollAgain(r) PROVE Asks
  BY <1>2, <1>14, Zenon DEF PollReaped, PollAgain, PollLost
<1>15. CASE \E r \in Runner : StartVm(r) \/ StopVm(r) \/ StartStep(r)
  BY <1>7, <1>8, <1>9, <1>12, <1>13, <1>15, Zenon DEF StartStep
<1>16. CASE \E r \in Runner : StopStep(r)
  BY <1>7, <1>8, <1>10, <1>12, <1>13, <1>14, <1>16, Zenon DEF StopStep
<1>17. CASE BrokerInternal \/ Unheard
  BY <1>17, Zenon DEF BrokerNext, Unheard
<1>18. CASE Crash \/ Restore \/ AdoptDone \/ AdoptAborted
  BY <1>3, <1>18, Zenon DEF Crash, Restore, AdoptDone, AdoptAborted
<1>19. CASE AdoptStep
  BY <1>7, <1>11, <1>12, <1>18, <1>19, Zenon DEF AdoptStep
<1> QED BY <1>15, <1>16, <1>17, <1>18, <1>19, Zenon DEF Next
-----------------------------------------------------------------------------
\* The moves of a thread that do.
LoudAction(r) ==
    \/ PruneScan(r) \/ PruneDrop(r) \/ PruneWrite(r) \/ SpawnReply(r) \/ RegisterEntry(r)
    \/ RegisterEnvEntry(r) \/ RegisterWrite(r) \/ RegisterWriteFails(r)
    \/ WriteRunnerSnapshot(r) \/ CleanupEntry(r) \/ CleanupWrite(r) \/ StopVm(r)
    \/ WaitReapLog(r) \/ WaitGone(r) \/ FinishEntry(r) \/ FinishSnapshot(r)
    \/ FinalSnapshot(r) \/ FinalWrite(r)

\* The steps of startup.
Adoption(r) ==
    \/ AdoptClassify(r) \/ AdoptMissing(r) \/ AdoptQuarantine(r) \/ AdoptOpen(r)
    \/ AdoptRunner(r) \/ AdoptLeft(r)

\* The steps of the broker and the kernel.
BrokerAlone == (BrokerInternal /\ UNCHANGED daemonVars) \/ Unheard

\* A step is one of these.
LEMMA NextCases ==
    ASSUME Next
    PROVE  \/ \E r \in Runner : QuietAction(r) \/ LoudAction(r) \/ Adoption(r)
           \/ BrokerAlone
           \/ Crash \/ Restore \/ AdoptDone \/ AdoptAborted
BY DEF Next, StartStep, StopStep, AdoptStep, QuietAction, LoudAction, Adoption, BrokerAlone

\* Whatever a step writes into a record, it had on record already, or it is the
\* process the broker has just answered with; and the types are kept.
Known(r, i) == i = None \/ Recorded(r, i)

Sources ==
    \A q \in Runner :
        /\ Known(q, table'[q]) /\ Known(q, disk'[q])
        /\ Known(q, snapDisk'[q]) /\ Known(q, mine'[q])
        /\ \A x \in Runner : Known(q, copy'[x][q])

LEMMA SourcesStep ==
    ASSUME RecordsInv, Next
    PROVE  SupervisionTypeOK' /\ Sources
<1> DEFINE Goal == SupervisionTypeOK' /\ Sources
<1>a. /\ BrokerTypeOK /\ SupervisionTypeOK /\ LoopLocals
      /\ None \notin Runner /\ None \notin Inst
  BY NoneAssumption, Zenon DEF RecordsInv, BrokerInv, Locals
<1>b. \A q \in Runner :
        /\ Known(q, None)
        /\ Known(q, table[q]) /\ Known(q, disk[q]) /\ Known(q, snapDisk[q]) /\ Known(q, mine[q])
        /\ \A x \in Runner : Known(q, copy[x][q])
  BY DEF RecordsInv, RecordsAreOwn, CopiesAreOwn, Known
<1> USE <1>a, <1>b DEF SupervisionTypeOK, Sources, PC, Table, Step, Goto, lifeVars, fileVars, Removed,
            Empty
<1>1. ASSUME NEW r \in Runner, QuietAction(r) PROVE Goal
  <2>1. Quiet(r)
    BY <1>a, <1>1, QuietSteps, Zenon
  <2> QED BY <2>1, Zenon DEF Quiet
<1>2. ASSUME NEW r \in Runner, PruneScan(r) PROVE Goal
  BY <1>2, Zenon DEF PruneScan, Stale
<1>3. ASSUME NEW r \in Runner, PruneDrop(r) PROVE Goal
  BY <1>3, Zenon DEF PruneDrop
<1>4. ASSUME NEW r \in Runner, PruneWrite(r) PROVE Goal
  <2>1. disk' \in {disk, copy[r]} /\ copy' = [copy EXCEPT ![r] = Empty]
    BY <1>4, Zenon DEF PruneWrite, Written, WriteFails
  <2> HIDE DEF Empty
  <2>2. Empty \in Table /\ \A q \in Runner : Empty[q] = None
    BY Zenon DEF Empty
  <2>3. disk' \in Table /\ \A q \in Runner : Known(q, disk'[q])
    BY <2>1
  <2>4. copy' \in [Runner -> Table] /\ \A x, q \in Runner : Known(q, copy'[x][q])
    BY <2>1, <2>2, Zenon
  <2>5. UNCHANGED <<up, crashes, adopting, table, log, dead>> 
        /\ snapDisk' \in Table /\ \A q \in Runner : Known(q, snapDisk'[q])
    BY <1>4, Zenon DEF PruneWrite
  <2>6. pc' \in [Runner -> PC] /\ guard' = None /\ phase' \in [Runner -> {"term", "kill"}]
        /\ mine' \in Table /\ \A q \in Runner : Known(q, mine'[q])
    BY <1>4, Zenon DEF PruneWrite
  <2> QED BY <2>3, <2>4, <2>5, <2>6, Zenon
<1>5. ASSUME NEW r \in Runner, SpawnReply(r) PROVE Goal
  <2>1. sinst \in Inst /\ Known(r, sinst)
    BY <1>5, Zenon DEF SpawnReply, LoopLocals, Known
  <2> QED BY <1>5, <2>1, Zenon DEF SpawnReply
<1>6. ASSUME NEW r \in Runner, RegisterEntry(r) PROVE Goal
  BY <1>6, Zenon DEF RegisterEntry, Snapshotting
<1>7. ASSUME NEW r \in Runner, RegisterEnvEntry(r) PROVE Goal
  BY <1>7, Zenon DEF RegisterEnvEntry
<1>8. ASSUME NEW r \in Runner, RegisterWrite(r) PROVE Goal
  BY <1>8, Zenon DEF RegisterWrite, Written
<1>9. ASSUME NEW r \in Runner, RegisterWriteFails(r) PROVE Goal
  BY <1>9, Zenon DEF RegisterWriteFails, WriteFails, Abandon
<1>10. ASSUME NEW r \in Runner, WriteRunnerSnapshot(r) PROVE Goal
  BY <1>10, Zenon DEF WriteRunnerSnapshot
<1>11. ASSUME NEW r \in Runner, CleanupEntry(r) PROVE Goal
  BY <1>11, Zenon DEF CleanupEntry, Snapshotting
<1>12. ASSUME NEW r \in Runner, CleanupWrite(r) PROVE Goal
  <2>1. disk' \in {disk, copy[r]} /\ copy' = [copy EXCEPT ![r] = Empty]
    BY <1>12, Zenon DEF CleanupWrite, Written, WriteFails
  <2> HIDE DEF Empty
  <2>2. Empty \in Table /\ \A q \in Runner : Empty[q] = None
    BY Zenon DEF Empty
  <2>3. disk' \in Table /\ \A q \in Runner : Known(q, disk'[q])
    BY <2>1
  <2>4. copy' \in [Runner -> Table] /\ \A x, q \in Runner : Known(q, copy'[x][q])
    BY <2>1, <2>2, Zenon
  <2>5. UNCHANGED <<up, crashes, adopting, table, log, dead>> 
        /\ snapDisk' \in Table /\ \A q \in Runner : Known(q, snapDisk'[q])
    BY <1>12, Zenon DEF CleanupWrite
  <2>6. pc' \in [Runner -> PC] /\ guard' = None /\ phase' \in [Runner -> {"term", "kill"}]
        /\ mine' \in Table /\ \A q \in Runner : Known(q, mine'[q])
    BY <1>12, Zenon DEF CleanupWrite, Abandon
  <2> QED BY <2>3, <2>4, <2>5, <2>6, Zenon
<1>13. ASSUME NEW r \in Runner, StopVm(r) PROVE Goal
  BY <1>13, Zenon DEF StopVm
<1>14. ASSUME NEW r \in Runner, WaitReapLog(r) PROVE Goal
  BY <1>14, Zenon DEF WaitReapLog
<1>15. ASSUME NEW r \in Runner, WaitGone(r) PROVE Goal
  BY <1>15, Zenon DEF WaitGone
<1>16. ASSUME NEW r \in Runner, FinishEntry(r) PROVE Goal
  BY <1>16, Zenon DEF FinishEntry
<1>17. ASSUME NEW r \in Runner, FinishSnapshot(r) PROVE Goal
  BY <1>17, Zenon DEF FinishSnapshot
<1>18. ASSUME NEW r \in Runner, FinalSnapshot(r) PROVE Goal
  BY <1>18, Zenon DEF FinalSnapshot, Snapshotting
<1>19. ASSUME NEW r \in Runner, FinalWrite(r) PROVE Goal
  <2>1. disk' \in {disk, copy[r]} /\ copy' = [copy EXCEPT ![r] = Empty]
    BY <1>19, Zenon DEF FinalWrite, Written, WriteFails
  <2> HIDE DEF Empty
  <2>2. Empty \in Table /\ \A q \in Runner : Empty[q] = None
    BY Zenon DEF Empty
  <2>3. disk' \in Table /\ \A q \in Runner : Known(q, disk'[q])
    BY <2>1
  <2>4. copy' \in [Runner -> Table] /\ \A x, q \in Runner : Known(q, copy'[x][q])
    BY <2>1, <2>2, Zenon
  <2>5. UNCHANGED <<up, crashes, adopting, table, log, dead>> 
        /\ snapDisk' \in Table /\ \A q \in Runner : Known(q, snapDisk'[q])
    BY <1>19, Zenon DEF FinalWrite
  <2>6. pc' \in [Runner -> PC] /\ guard' = None /\ phase' \in [Runner -> {"term", "kill"}]
        /\ mine' \in Table /\ \A q \in Runner : Known(q, mine'[q])
    BY <1>19, Zenon DEF FinalWrite
  <2> QED BY <2>3, <2>4, <2>5, <2>6, Zenon
<1>20. ASSUME NEW r \in Runner, AdoptClassify(r) PROVE Goal
  BY <1>20, Zenon DEF AdoptClassify
<1>21. ASSUME NEW r \in Runner, AdoptMissing(r) PROVE Goal
  BY <1>21, Zenon DEF AdoptMissing
<1>22. ASSUME NEW r \in Runner, AdoptQuarantine(r) PROVE Goal
  BY <1>22, Zenon DEF AdoptQuarantine
<1>23. ASSUME NEW r \in Runner, AdoptOpen(r) PROVE Goal
  BY <1>23, Zenon DEF AdoptOpen
<1>24. ASSUME NEW r \in Runner, AdoptRunner(r) PROVE Goal
  <2>1. sinst \in Inst /\ Known(r, sinst) /\ registry'[r] = sinst
    <3>1. spc = "verify" /\ sid = r /\ StartTimeMatches /\ registry' = [registry EXCEPT ![sid] = sinst]
      BY <1>24, Zenon DEF AdoptRunner, OpenSucceeds, OpenVerified
    <3>2. want \in Inst /\ sinst \in Inst /\ Recorded(sid, want) /\ (Exists(want) => sinst = want)
      BY <3>1, Zenon DEF LoopLocals
    <3>3. Exists(want)
      BY <3>1, <3>2, Zenon DEF StartTimeMatches, Exists
    <3> QED BY <3>1, <3>2, <3>3, Zenon DEF Known, BrokerTypeOK
  <2> QED BY <1>24, <2>1, ZenonT(40) DEF AdoptRunner
<1>25. ASSUME NEW r \in Runner, AdoptLeft(r) PROVE Goal
  BY <1>25, Zenon DEF AdoptLeft
<1>26. CASE Crash
  BY <1>26, SupervisionAssumption DEF Crash
<1>27. CASE Restore
  <2>1. PICK reopened \in SUBSET {r \in Runner : Reopens(disk[r])} :
        table' = [r \in Runner |-> IF r \in reopened
                                  THEN [pid |-> disk[r].pid, start |-> start[disk[r].pid]]
                                  ELSE None]
    BY <1>27, Zenon DEF Restore
  <2>2. \A r \in Runner : Reopens(disk[r]) => [pid |-> disk[r].pid, start |-> start[disk[r].pid]] = disk[r]
    BY DEF Reopens, Inst
  <2>3. table' = [r \in Runner |-> IF r \in reopened THEN disk[r] ELSE None]
    BY <2>1, <2>2, Zenon
  <2>4. log' \in [Pid -> Runner \union {None}]
    BY <1>27, PolledType, Zenon DEF Restore
  <2> QED BY <1>27, <2>3, <2>4, Zenon DEF Restore
<1>28. CASE AdoptDone
  BY <1>28, Zenon DEF AdoptDone
<1>29. CASE AdoptAborted
  BY <1>29, Zenon DEF AdoptAborted
<1>30. CASE BrokerAlone
  BY <1>30 DEF BrokerAlone, Unheard, daemonVars
<1> QED
  BY <1>1, <1>2, <1>3, <1>4, <1>5, <1>6, <1>7, <1>8, <1>9, <1>10, <1>11, <1>12, <1>13,
     <1>14, <1>15, <1>16, <1>17, <1>18, <1>19, <1>20, <1>21, <1>22, <1>23, <1>24, <1>25,
     <1>26, <1>27, <1>28, <1>29, <1>30, NextCases, Zenon DEF LoudAction, Adoption
-----------------------------------------------------------------------------
\* What the broker's steps leave of a record: it stays one, and its process does
\* not come back to life.
LEMMA AliveStep ==
    ASSUME BrokerTypeOK, Clock, Locals, BrokerNext, NEW i \in Inst, i.start <= ticks, Alive(i)'
    PROVE  Alive(i)
<1>1. Exists(i) /\ i.pid \in Pid /\ i.start \in Nat /\ ticks \in Nat
  BY RecordsStep DEF Alive, Inst, BrokerTypeOK
<1>2. st'[i.pid] = "running" /\ start'[i.pid] = i.start
  BY Zenon DEF Alive, Exists
<1> SUFFICES st[i.pid] = "running"
  BY <1>1, Zenon DEF Alive
<1> USE <1>1, <1>2 DEF BrokerTypeOK, Fork, Free, procVars
<1>3. CASE \E p \in Pid : HostFork(p) \/ SpawnClone(p)
  BY <1>3 DEF HostFork, SpawnClone
<1>4. CASE \E p \in Pid : Exit(p)
  BY <1>4 DEF Exit
<1>5. CASE ReaperWaitid \/ SpawnTargetedReap \/ SpawnRegisterFailed
  BY <1>5 DEF ReaperWaitid, SpawnTargetedReap, SpawnRegisterFailed, TargetedReap
<1>6. CASE BrokerRestart
  BY <1>6, Zenon DEF BrokerRestart
<1>7. CASE UNCHANGED st
  BY <1>7, Zenon
<1> QED
  BY <1>3, <1>4, <1>5, <1>6, <1>7, Zenon
  DEF BrokerNext, BrokerInternal, ReaperStep, SpawnStep, ReaperWake, ReaperPick, ReaperRemove, ReaperPush,
      ReaperDone, SpawnReserve, SpawnAborted, SpawnRegister, SpawnDone, OpenPidfd, OpenVerified, OpenRaced,
      Deregister, PollChildReaped

LEMMA RecordFacts ==
    ASSUME RecordsInv, Next
    PROVE  /\ BrokerInv'
           /\ \A r \in Runner, i \in Inst : Recorded(r, i) => Recorded(r, i)'
           /\ \A i \in Inst : i.start <= ticks /\ Alive(i)' => Alive(i)
           /\ \A i \in Inst : i.start <= ticks /\ Exists(i)' => Exists(i)
<1>1. BrokerInv /\ [BrokerNext]_brokerVars
  BY ContractStep, Zenon DEF RecordsInv
<1>2. BrokerInv'
  BY <1>1, StepInv, Zenon
<1>3. CASE BrokerNext
  <2>1. BrokerTypeOK /\ Clock /\ Locals
    BY <1>1, Zenon DEF BrokerInv
  <2> QED BY <1>2, <1>3, <2>1, RecordsStep, AliveStep, Zenon
<1>4. CASE UNCHANGED brokerVars
  BY <1>2, <1>4, Zenon DEF brokerVars, procVars, Recorded, Alive, Exists
<1> QED BY <1>1, <1>3, <1>4, Zenon

\* The records stay own, in memory, on disk and on their way there.
LEMMA OwnStep ==
    ASSUME RecordsInv, Next
    PROVE  RecordsAreOwn' /\ CopiesAreOwn'
<1>1. SupervisionTypeOK' /\ Sources
  BY SourcesStep, Zenon
<1>2. \A r \in Runner, i \in Inst : Recorded(r, i) => Recorded(r, i)'
  BY RecordFacts, Zenon
<1> QED BY <1>1, <1>2 DEF SupervisionTypeOK, Sources, Known, Table, RecordsAreOwn, CopiesAreOwn

\* The broker's own steps finish a request for a pidfd or leave it as it is.
LEMMA VerifyStep ==
    ASSUME BrokerInternal \/ SpawnDone \/ OpenVerified \/ OpenRaced \/ PollChildReaped,
           spc' = "verify"
    PROVE  UNCHANGED <<spc, sid, want>>
BY Zenon DEF BrokerInternal, ReaperStep, SpawnStep, Exit, HostFork, ReaperWake, ReaperPick, ReaperWaitid,
       ReaperRemove, ReaperPush, ReaperDone, SpawnClone, SpawnAborted, SpawnRegister,
       SpawnTargetedReap, SpawnRegisterFailed, TargetedReap, SpawnDone, OpenVerified, OpenRaced,
       PollChildReaped, BrokerRestart, Accept, loopVars

\* The program points keep their meaning.
LEMMA LocalsStep ==
    ASSUME RecordsInv, Next
    PROVE  ThreadLocals'
<1> DEFINE Goal == ThreadLocals'
<1>a. BrokerTypeOK /\ SupervisionTypeOK /\ LoopLocals /\ ThreadLocals
      /\ None \notin Runner /\ None \notin Inst
  BY NoneAssumption, Zenon DEF RecordsInv, BrokerInv, Locals
<1>b. /\ mine \in Table /\ pc \in [Runner -> PC] /\ snapDisk \in Table
  BY <1>a, Zenon DEF SupervisionTypeOK
<1> USE <1>a, <1>b DEF ThreadLocals, Table, PC, Spawned, Step, Goto, lifeVars, fileVars, Removed
<1>1. ASSUME NEW r \in Runner, QuietAction(r) PROVE Goal
  <2>1. Quiet(r)
    BY <1>a, <1>1, QuietSteps, Zenon
  <2> QED BY <2>1, Zenon DEF Quiet, QuietMove
<1>2. ASSUME NEW r \in Runner, PruneScan(r) PROVE Goal
  BY <1>2, Zenon DEF PruneScan, Stale
<1>3. ASSUME NEW r \in Runner, PruneDrop(r) PROVE Goal
  BY <1>3, Zenon DEF PruneDrop
<1>4. ASSUME NEW r \in Runner, PruneWrite(r) PROVE Goal
  BY <1>4, Zenon DEF PruneWrite, Written, WriteFails
<1>5. ASSUME NEW r \in Runner, SpawnReply(r) PROVE Goal
  <2>1. sinst \in Inst
    BY <1>5, Zenon DEF SpawnReply, LoopLocals
  <2> QED BY <1>5, <2>1, Zenon DEF SpawnReply
<1>6. ASSUME NEW r \in Runner, RegisterEntry(r) PROVE Goal
  BY <1>6, Zenon DEF RegisterEntry, Snapshotting
<1>7. ASSUME NEW r \in Runner, RegisterEnvEntry(r) PROVE Goal
  BY <1>7, Zenon DEF RegisterEnvEntry
<1>8. ASSUME NEW r \in Runner, RegisterWrite(r) PROVE Goal
  BY <1>8, Zenon DEF RegisterWrite, Written
<1>9. ASSUME NEW r \in Runner, RegisterWriteFails(r) PROVE Goal
  BY <1>9, Zenon DEF RegisterWriteFails, WriteFails, Abandon
<1>10. ASSUME NEW r \in Runner, WriteRunnerSnapshot(r) PROVE Goal
  BY <1>10, Zenon DEF WriteRunnerSnapshot
<1>11. ASSUME NEW r \in Runner, CleanupEntry(r) PROVE Goal
  BY <1>11, Zenon DEF CleanupEntry, Snapshotting
<1>12. ASSUME NEW r \in Runner, CleanupWrite(r) PROVE Goal
  BY <1>12, Zenon DEF CleanupWrite, Written, WriteFails, Abandon
<1>13. ASSUME NEW r \in Runner, StopVm(r) PROVE Goal
  BY <1>13, Zenon DEF StopVm
<1>14. ASSUME NEW r \in Runner, WaitReapLog(r) PROVE Goal
  BY <1>14, Zenon DEF WaitReapLog
<1>15. ASSUME NEW r \in Runner, WaitGone(r) PROVE Goal
  BY <1>15, Zenon DEF WaitGone
<1>16. ASSUME NEW r \in Runner, FinishEntry(r) PROVE Goal
  BY <1>16, Zenon DEF FinishEntry
<1>17. ASSUME NEW r \in Runner, FinishSnapshot(r) PROVE Goal
  BY <1>17, Zenon DEF FinishSnapshot
<1>18. ASSUME NEW r \in Runner, FinalSnapshot(r) PROVE Goal
  BY <1>18, Zenon DEF FinalSnapshot, Snapshotting
<1>19. ASSUME NEW r \in Runner, FinalWrite(r) PROVE Goal
  BY <1>19, Zenon DEF FinalWrite, Written, WriteFails
<1>20. ASSUME NEW r \in Runner, AdoptClassify(r) PROVE Goal
  <2>1. snapDisk[r] # None
    BY <1>20, Zenon DEF AdoptClassify, Exists
  <2> QED BY <1>20, <2>1, Zenon DEF AdoptClassify, brokerVars, loopVars
<1>21. ASSUME NEW r \in Runner, AdoptMissing(r) PROVE Goal
  BY <1>21, Zenon DEF AdoptMissing, brokerVars, loopVars
<1>22. ASSUME NEW r \in Runner, AdoptQuarantine(r) PROVE Goal
  BY <1>22, Zenon DEF AdoptQuarantine, brokerVars, loopVars
<1>23. ASSUME NEW r \in Runner, AdoptOpen(r) PROVE Goal
  BY <1>23, Zenon DEF AdoptOpen, OpenPidfd
<1>24. ASSUME NEW r \in Runner, AdoptRunner(r) PROVE Goal
  BY <1>24, Zenon DEF AdoptRunner, OpenSucceeds, OpenVerified, Accept
<1>25. ASSUME NEW r \in Runner, AdoptLeft(r) PROVE Goal
  BY <1>25, Zenon DEF AdoptLeft, OpenFails, OpenRaced, RpcFails, Accept, brokerVars, loopVars
<1>26. CASE Crash
  BY <1>26, Zenon DEF Crash
<1>27. CASE Restore
  BY <1>27, Zenon DEF Restore
<1>28. CASE AdoptDone
  BY <1>28, Zenon DEF AdoptDone
<1>29. CASE AdoptAborted
  BY <1>29, Zenon DEF AdoptAborted
<1>30. CASE BrokerAlone
  <2>1. spc' = "verify" => UNCHANGED <<spc, sid, want>>
    BY <1>30, VerifyStep, Zenon DEF BrokerAlone, Unheard
  <2> QED BY <1>30, <2>1, Zenon DEF BrokerAlone, Unheard, daemonVars
<1> QED
  BY <1>1, <1>2, <1>3, <1>4, <1>5, <1>6, <1>7, <1>8, <1>9, <1>10, <1>11, <1>12, <1>13,
     <1>14, <1>15, <1>16, <1>17, <1>18, <1>19, <1>20, <1>21, <1>22, <1>23, <1>24, <1>25,
     <1>26, <1>27, <1>28, <1>29, <1>30, NextCases, Zenon DEF LoudAction, Adoption
-----------------------------------------------------------------------------
\* A step that changes nothing keeps whatever is said of the state.
LEMMA SupervisionInit == Init => RecordsInv
<1> SUFFICES ASSUME Init PROVE RecordsInv
  BY Zenon
<1>1. BrokerInv
  BY InitInv, Zenon DEF Init
<1>2. SupervisionTypeOK
  BY SupervisionAssumption DEF Init, SupervisionTypeOK, Table, Empty, PC
<1>3. RecordsAreOwn /\ CopiesAreOwn
  BY Zenon DEF Init, RecordsAreOwn, CopiesAreOwn, Empty
<1>4. ThreadLocals
  BY Zenon DEF Init, ThreadLocals, Spawned
<1> QED BY <1>1, <1>2, <1>3, <1>4, Zenon DEF RecordsInv

LEMMA RecordsInvStep == RecordsInv /\ [Next]_vars => RecordsInv'
<1> SUFFICES ASSUME RecordsInv, [Next]_vars PROVE RecordsInv'
  BY Zenon
<1>1. CASE Next
  BY <1>1, RecordFacts, SourcesStep, OwnStep, LocalsStep, Zenon DEF RecordsInv
<1>2. CASE UNCHANGED vars
  <2>1. UNCHANGED brokerVars /\ UNCHANGED daemonVars
    BY <1>2, Zenon DEF vars
  <2>2. BrokerInv'
    BY <2>1, StepInv, Zenon DEF RecordsInv
  <2>3. SupervisionTypeOK'
    BY <2>1, Zenon DEF daemonVars, lifeVars, fileVars, RecordsInv, SupervisionTypeOK
  <2>4. RecordsAreOwn' /\ CopiesAreOwn'
    BY <2>1, Zenon DEF daemonVars, brokerVars, procVars, fileVars, RecordsInv, RecordsAreOwn, CopiesAreOwn,
       Recorded, Exists
  <2>5. ThreadLocals'
    BY <2>1, Zenon DEF daemonVars, brokerVars, loopVars, lifeVars, fileVars, RecordsInv, ThreadLocals
  <2> QED BY <2>2, <2>3, <2>4, <2>5, Zenon DEF RecordsInv
<1> QED BY <1>1, <1>2, Zenon

\* Whatever crashes, restarts, faults and reuses of pids there are, the records stay
\* own and the locals of the threads keep their meaning.
THEOREM RecordsInvariant == Safety => []RecordsInv
BY SupervisionInit, RecordsInvStep, PTL DEF Safety

\* The daemon's side keeps its types.
THEOREM SupervisionTypes == Safety => []SupervisionTypeOK
<1>1. RecordsInv => SupervisionTypeOK
  BY Zenon DEF RecordsInv
<1> QED BY <1>1, RecordsInvariant, PTL

\* reopen_persisted_entry, register and the adoption never let an entry of the
\* table, of its file or of a runner snapshot stand for a process that inherited
\* the pid, wherever the daemon and the broker crash.
THEOREM RecordsOwned == Safety => []RecordsAreOwn
<1>1. RecordsInv => RecordsAreOwn
  BY Zenon DEF RecordsInv
<1> QED BY <1>1, RecordsInvariant, PTL

\* The daemon and the broker together implement the broker with any client:
\* every request of the daemon is one the broker's contract allows.
THEOREM Contract == Safety => KeepsBrokerContract
<1>1. Init => BrokerInit
  BY Zenon DEF Init
<1>2. RecordsInv /\ [Next]_vars => [BrokerNext]_brokerVars
  <2>1. RecordsInv /\ Next => [BrokerNext]_brokerVars
    BY ContractStep, Zenon
  <2>2. UNCHANGED vars => UNCHANGED brokerVars
    BY Zenon DEF vars
  <2> QED BY <2>1, <2>2, Zenon
<1> QED BY <1>1, <1>2, RecordsInvariant, PTL DEF Safety, KeepsBrokerContract, BrokerSafety

\* So the broker's guarantees hold of the two together: every registered pidfd
\* refers to a process of its runner, no spawn overwrites a registration, and no
\* exited child is without a reap to come.
THEOREM ComposedBroker == Safety => [](RegistryIsOwn /\ SpawnNeverOverwrites /\ NoLostReap)
<1>1. BrokerInv => RegistryIsOwn /\ SpawnNeverOverwrites /\ NoLostReap
  BY Zenon DEF BrokerInv
<1> QED BY <1>1, Contract, BrokerInvariant, PTL DEF KeepsBrokerContract
=============================================================================
