----------------------- MODULE RunnerRecoveryProofs -----------------------
(***************************************************************************)
(* What the daemon's table and files keep of its runners, for any number of *)
(* runners and pids and any bounds: the mutation guard, the prune, crashes  *)
(* and the recovery at startup.                                            *)
(***************************************************************************)
EXTENDS RunnerSupervisionProofs

\* What a table has under a key.
Entry == Inst \union {None}

\* Between copy and write a thread holds the guard, except the env spawner.
GuardHeld ==
    \A r \in Runner :
        (pc[r] \in Writing \union {"pruneDrop"} /\ ~(pc[r] = "registerWrite" /\ r \in EnvRunner)) =>
            guard = r

\* What a thread knows of its own entry of the table: it is free until it
\* registers, then it is the process it spawned or is stopping unless another
\* thread has pruned it, and after the cleanup it is free again.
EntryAtPc ==
    \A r \in Runner :
        /\ pc[r] \in Before \union After => table[r] = None
        /\ pc[r] \in With => table[r] \in {None, mine[r]}

\* What a scan found dead is dead or gone, and nobody is about to replace it.
ScanHolds ==
    \A r, q \in Runner :
        (pc[r] = "pruneDrop" /\ q \in dead[r]) =>
            /\ \A i \in Inst : table[q] = i => ~Alive(i)
            /\ table[q] = None => pc[q] \notin Before \union {"check"}

TableInv == RecordsInv /\ GuardHeld /\ EntryAtPc /\ ScanHolds
-----------------------------------------------------------------------------
\* An entry without a runner snapshot is in the table's file and in whatever is
\* about to be written over it.
Persisted ==
    \A r \in Runner :
        /\ (up = "up" /\ table[r] # None /\ pc[r] \notin Registering /\ table[r] # snapDisk[r]) =>
            /\ disk[r] = table[r]
            /\ \A q \in Runner : pc[q] \in Writing => copy[q][r] = table[r]
        /\ up = "adopt" => table[r] \in {None, disk[r], snapDisk[r]}
        /\ (up = "adopt" /\ r \in adopting) => table[r] \in {None, disk[r]}

\* When all take the guard, what is about to be written holds the whole table.
CopiesAreCurrent ==
    /\ \A q, r \in Runner : pc[q] \in Writing => table[r] \in {None, copy[q][r]}
    /\ CrashSafe
-----------------------------------------------------------------------------
\* The records of r outside the table.
Filed(r, i) ==
    i \in {disk[r], snapDisk[r]} \/ \E q \in Runner : pc[q] \in Writing /\ i = copy[q][r]

\* The process r's thread answers for: the one it is taking out of the records,
\* otherwise the one of the table.
Held(r, i) ==
    (pc[r] \in Finishing /\ mine[r] = i) \/ (pc[r] \notin Finishing /\ table[r] = i)

\* Of all processes on record for a runner at most one is alive: the one held, or
\* after a crash the one the files agree on.
OneAlive ==
    \A r \in Runner : \A i \in Inst :
        (Filed(r, i) /\ Alive(i)) =>
            /\ up = "up" => Held(r, i)
            /\ up = "adopt" => table[r] \in {None, i}
            /\ (up = "adopt" /\ i = disk[r]) => table[r] = i
            /\ (up = "adopt" /\ i = snapDisk[r] /\ r \notin adopting) => table[r] = i
            /\ up = "down" => \A j \in Inst : Filed(r, j) /\ Alive(j) => j = i

\* A registered process stays in the table while it lives; without errors of files
\* no registration is undone; a stop has removed the snapshot before its final
\* write; and without a restart of the broker the request of an adoption is still
\* being served.
StopAndAdopt ==
    \A r \in Runner :
        /\ \A i \in Inst :
            (pc[r] \in {"registerWrite", "runnerSnapshot"} /\ mine[r] = i /\ Alive(i)) => table[r] = i
        /\ pc[r] \notin {"cleanup", "cleanupWrite"}
        /\ pc[r] \in {"final", "finalWrite"} => snapDisk[r] = None
        /\ pc[r] = "finalWrite" => copy[r][r] = None
        /\ pc[r] = "adoptVerify" => spc = "verify" /\ sid = r

Answering == Faults \subseteq {"spawn"} /\ EnvRunner = {} /\ restarts = 0

SupervisedInv == OneAlive /\ StopAndAdopt
-----------------------------------------------------------------------------
\* Between copy and write, and between scan and removal, the guard stays held.
LEMMA GuardStep ==
    ASSUME RecordsInv, GuardHeld, Next
    PROVE  GuardHeld'
<1> DEFINE Goal == GuardHeld'
<1>a. BrokerTypeOK /\ SupervisionTypeOK /\ ThreadLocals /\ None \notin Runner /\ None \notin Inst
  BY NoneAssumption, Zenon DEF RecordsInv, BrokerInv
<1>b. pc \in [Runner -> PC]
  BY <1>a, Zenon DEF SupervisionTypeOK, Table, Entry
<1> USE <1>a, <1>b DEF GuardHeld, Writing, Step, Goto, lifeVars, fileVars
<1>1. ASSUME NEW r \in Runner, QuietAction(r) PROVE Goal
  <2>1. Quiet(r)
    BY <1>a, <1>1, QuietSteps, Zenon
  <2> QED BY <2>1, Zenon DEF Quiet, QuietMove
<1>2. ASSUME NEW r \in Runner, PruneScan(r) PROVE Goal
  BY <1>2, Zenon DEF PruneScan, Stale
<1>3. ASSUME NEW r \in Runner, PruneDrop(r) PROVE Goal
  BY <1>3, Zenon DEF PruneDrop
<1>4. ASSUME NEW r \in Runner, PruneWrite(r) PROVE Goal
  BY <1>4, Zenon DEF PruneWrite, Written, WriteFails
<1>5. ASSUME NEW r \in Runner, SpawnReply(r) PROVE Goal
  BY <1>5, Zenon DEF SpawnReply
<1>6. ASSUME NEW r \in Runner, RegisterEntry(r) PROVE Goal
  BY <1>6, Zenon DEF RegisterEntry, Snapshotting
<1>7. ASSUME NEW r \in Runner, RegisterEnvEntry(r) PROVE Goal
  BY <1>7, Zenon DEF RegisterEnvEntry
<1>8. ASSUME NEW r \in Runner, RegisterWrite(r) PROVE Goal
  BY <1>8, Zenon DEF RegisterWrite, Written
<1>9. ASSUME NEW r \in Runner, RegisterWriteFails(r) PROVE Goal
  BY <1>9, Zenon DEF RegisterWriteFails, WriteFails, Abandon
<1>10. ASSUME NEW r \in Runner, WriteRunnerSnapshot(r) PROVE Goal
  BY <1>10, Zenon DEF WriteRunnerSnapshot
<1>11. ASSUME NEW r \in Runner, CleanupEntry(r) PROVE Goal
  BY <1>11, Zenon DEF CleanupEntry, Snapshotting
<1>12. ASSUME NEW r \in Runner, CleanupWrite(r) PROVE Goal
  BY <1>12, Zenon DEF CleanupWrite, Written, WriteFails, Abandon
<1>13. ASSUME NEW r \in Runner, StopVm(r) PROVE Goal
  BY <1>13, Zenon DEF StopVm
<1>14. ASSUME NEW r \in Runner, WaitReapLog(r) PROVE Goal
  BY <1>14, Zenon DEF WaitReapLog
<1>15. ASSUME NEW r \in Runner, WaitGone(r) PROVE Goal
  BY <1>15, Zenon DEF WaitGone
<1>16. ASSUME NEW r \in Runner, FinishEntry(r) PROVE Goal
  BY <1>16, Zenon DEF FinishEntry
<1>17. ASSUME NEW r \in Runner, FinishSnapshot(r) PROVE Goal
  BY <1>17, Zenon DEF FinishSnapshot
<1>18. ASSUME NEW r \in Runner, FinalSnapshot(r) PROVE Goal
  BY <1>18, Zenon DEF FinalSnapshot, Snapshotting
<1>19. ASSUME NEW r \in Runner, FinalWrite(r) PROVE Goal
  BY <1>19, Zenon DEF FinalWrite, Written, WriteFails
<1>20. ASSUME NEW r \in Runner, AdoptClassify(r) PROVE Goal
  BY <1>20, Zenon DEF AdoptClassify
<1>21. ASSUME NEW r \in Runner, AdoptMissing(r) PROVE Goal
  BY <1>21, Zenon DEF AdoptMissing
<1>22. ASSUME NEW r \in Runner, AdoptQuarantine(r) PROVE Goal
  BY <1>22, Zenon DEF AdoptQuarantine
<1>23. ASSUME NEW r \in Runner, AdoptOpen(r) PROVE Goal
  BY <1>23, Zenon DEF AdoptOpen
<1>24. ASSUME NEW r \in Runner, AdoptRunner(r) PROVE Goal
  BY <1>24, Zenon DEF AdoptRunner
<1>25. ASSUME NEW r \in Runner, AdoptLeft(r) PROVE Goal
  BY <1>25, Zenon DEF AdoptLeft
<1>26. CASE Crash
  BY <1>26, Zenon DEF Crash
<1>27. CASE Restore
  BY <1>27, Zenon DEF Restore, ThreadLocals
<1>28. CASE AdoptDone
  BY <1>28, Zenon DEF AdoptDone
<1>29. CASE AdoptAborted
  BY <1>29, Zenon DEF AdoptAborted
<1>30. CASE BrokerAlone
  BY <1>30, Zenon DEF BrokerAlone, Unheard, daemonVars
<1> QED
  BY <1>1, <1>2, <1>3, <1>4, <1>5, <1>6, <1>7, <1>8, <1>9, <1>10, <1>11, <1>12, <1>13,
     <1>14, <1>15, <1>16, <1>17, <1>18, <1>19, <1>20, <1>21, <1>22, <1>23, <1>24, <1>25,
     <1>26, <1>27, <1>28, <1>29, <1>30, NextCases, Zenon DEF LoudAction, Adoption

\* A thread's own entry changes only with its steps and by pruning.
LEMMA EntryStep ==
    ASSUME RecordsInv, EntryAtPc, Next
    PROVE  EntryAtPc'
<1> DEFINE Goal == EntryAtPc'
<1>a. BrokerTypeOK /\ SupervisionTypeOK /\ ThreadLocals /\ None \notin Runner /\ None \notin Inst
  BY NoneAssumption, Zenon DEF RecordsInv, BrokerInv
<1>b. table \in [Runner -> Entry] /\ mine \in [Runner -> Entry] /\ pc \in [Runner -> PC]
  BY <1>a, Zenon DEF SupervisionTypeOK, Table, Entry
<1> USE <1>a, <1>b DEF EntryAtPc, Before, With, After, Removed, Step, Goto, lifeVars, fileVars
<1>1. ASSUME NEW r \in Runner, QuietAction(r) PROVE Goal
  <2>1. Quiet(r)
    BY <1>a, <1>1, QuietSteps, Zenon
  <2> QED BY <2>1, Zenon DEF Quiet, QuietMove
<1>2. ASSUME NEW r \in Runner, PruneScan(r) PROVE Goal
  BY <1>2, Zenon DEF PruneScan, Stale
<1>3. ASSUME NEW r \in Runner, PruneDrop(r) PROVE Goal
  BY <1>3, Zenon DEF PruneDrop
<1>4. ASSUME NEW r \in Runner, PruneWrite(r) PROVE Goal
  BY <1>4, Zenon DEF PruneWrite, Written, WriteFails
<1>5. ASSUME NEW r \in Runner, SpawnReply(r) PROVE Goal
  BY <1>5, Zenon DEF SpawnReply
<1>6. ASSUME NEW r \in Runner, RegisterEntry(r) PROVE Goal
  BY <1>6, Zenon DEF RegisterEntry, Snapshotting
<1>7. ASSUME NEW r \in Runner, RegisterEnvEntry(r) PROVE Goal
  BY <1>7, Zenon DEF RegisterEnvEntry
<1>8. ASSUME NEW r \in Runner, RegisterWrite(r) PROVE Goal
  BY <1>8, Zenon DEF RegisterWrite, Written
<1>9. ASSUME NEW r \in Runner, RegisterWriteFails(r) PROVE Goal
  BY <1>9, Zenon DEF RegisterWriteFails, WriteFails, Abandon
<1>10. ASSUME NEW r \in Runner, WriteRunnerSnapshot(r) PROVE Goal
  BY <1>10, Zenon DEF WriteRunnerSnapshot
<1>11. ASSUME NEW r \in Runner, CleanupEntry(r) PROVE Goal
  BY <1>11, Zenon DEF CleanupEntry, Snapshotting
<1>12. ASSUME NEW r \in Runner, CleanupWrite(r) PROVE Goal
  BY <1>12, Zenon DEF CleanupWrite, Written, WriteFails, Abandon
<1>13. ASSUME NEW r \in Runner, StopVm(r) PROVE Goal
  BY <1>13, Zenon DEF StopVm
<1>14. ASSUME NEW r \in Runner, WaitReapLog(r) PROVE Goal
  BY <1>14, Zenon DEF WaitReapLog
<1>15. ASSUME NEW r \in Runner, WaitGone(r) PROVE Goal
  BY <1>15, Zenon DEF WaitGone
<1>16. ASSUME NEW r \in Runner, FinishEntry(r) PROVE Goal
  BY <1>16, Zenon DEF FinishEntry
<1>17. ASSUME NEW r \in Runner, FinishSnapshot(r) PROVE Goal
  BY <1>17, Zenon DEF FinishSnapshot
<1>18. ASSUME NEW r \in Runner, FinalSnapshot(r) PROVE Goal
  BY <1>18, Zenon DEF FinalSnapshot, Snapshotting
<1>19. ASSUME NEW r \in Runner, FinalWrite(r) PROVE Goal
  BY <1>19, Zenon DEF FinalWrite, Written, WriteFails
<1>20. ASSUME NEW r \in Runner, AdoptClassify(r) PROVE Goal
  BY <1>20, Zenon DEF AdoptClassify
<1>21. ASSUME NEW r \in Runner, AdoptMissing(r) PROVE Goal
  BY <1>21, Zenon DEF AdoptMissing
<1>22. ASSUME NEW r \in Runner, AdoptQuarantine(r) PROVE Goal
  BY <1>22, Zenon DEF AdoptQuarantine
<1>23. ASSUME NEW r \in Runner, AdoptOpen(r) PROVE Goal
  BY <1>23, Zenon DEF AdoptOpen
<1>24. ASSUME NEW r \in Runner, AdoptRunner(r) PROVE Goal
  BY <1>24, Zenon DEF AdoptRunner, ThreadLocals
<1>25. ASSUME NEW r \in Runner, AdoptLeft(r) PROVE Goal
  BY <1>25, Zenon DEF AdoptLeft
<1>26. CASE Crash
  BY <1>26, Zenon DEF Crash, Empty
<1>27. CASE Restore
  BY <1>27, Zenon DEF Restore, ThreadLocals
<1>28. CASE AdoptDone
  BY <1>28, Zenon DEF AdoptDone
<1>29. CASE AdoptAborted
  BY <1>29, Zenon DEF AdoptAborted
<1>30. CASE BrokerAlone
  BY <1>30, Zenon DEF BrokerAlone, Unheard, daemonVars
<1> QED
  BY <1>1, <1>2, <1>3, <1>4, <1>5, <1>6, <1>7, <1>8, <1>9, <1>10, <1>11, <1>12, <1>13,
     <1>14, <1>15, <1>16, <1>17, <1>18, <1>19, <1>20, <1>21, <1>22, <1>23, <1>24, <1>25,
     <1>26, <1>27, <1>28, <1>29, <1>30, NextCases, Zenon DEF LoudAction, Adoption

\* Between scan and removal nobody puts a live process under a key that was found
\* dead: registering takes the guard, and the env spawner's own entry is in no scan.
LEMMA ScanStep ==
    ASSUME TableInv, Next
    PROVE  ScanHolds'
<1> DEFINE Goal == ScanHolds'
<1>a. BrokerTypeOK /\ SupervisionTypeOK /\ ThreadLocals /\ None \notin Runner /\ None \notin Inst
      /\ GuardHeld /\ EntryAtPc /\ ScanHolds
  BY NoneAssumption, Zenon DEF TableInv, RecordsInv, BrokerInv
<1>b. table \in [Runner -> Entry] /\ mine \in [Runner -> Entry] /\ pc \in [Runner -> PC] /\ dead \in [Runner -> SUBSET Runner]
  BY <1>a, Zenon DEF SupervisionTypeOK, Table, Entry
<1>c. \A q \in Runner, i \in Inst : table[q] = i /\ ~Alive(i) => ~Alive(i)'
  <2>1. \A q \in Runner, i \in Inst : table[q] = i => i.start <= ticks
    BY <1>a, Zenon DEF TableInv, RecordsInv, RecordsAreOwn, Recorded
  <2> QED BY <2>1, RecordFacts, Zenon DEF TableInv
<1>d. \A r, q \in Runner : pc[r] = "pruneDrop" /\ pc[q] \in Writing \union {"pruneDrop"} =>
        q = r \/ (pc[q] = "registerWrite" /\ q \in EnvRunner)
  BY <1>a, Zenon DEF GuardHeld, Writing
<1>e. \A r \in Runner : pc[r] = "pruneDrop" => guard = r /\ up = "up"
  BY <1>a, Zenon DEF GuardHeld, ThreadLocals
<1> USE <1>a, <1>b DEF ScanHolds, Before, Removed, Step, Goto, lifeVars, fileVars
<1>1. ASSUME NEW r \in Runner, QuietAction(r) PROVE Goal
  <2>1. Quiet(r)
    BY <1>a, <1>1, QuietSteps, Zenon
  <2>2. UNCHANGED <<table, dead>> /\ \A q \in Runner : pc'[q] = "pruneDrop" => pc[q] = "pruneDrop"
    BY <2>1, Zenon DEF Quiet, QuietMove
  <2>3. \A q \in Runner : pc'[q] \in Before \union {"check"} => pc[q] \in Before \union {"check"}
    BY <2>1, Zenon DEF Quiet, QuietMove
  <2> QED BY <1>c, <2>2, <2>3, Zenon
<1>2. ASSUME NEW r \in Runner, PruneScan(r) PROVE Goal
  <2>1. guard = None /\ \A q \in Runner : pc[q] # "pruneDrop"
    BY <1>2, <1>e, Zenon DEF PruneScan
  <2> QED BY <1>2, <1>c, <2>1, Zenon DEF PruneScan, Stale
<1>3. ASSUME NEW r \in Runner, PruneDrop(r) PROVE Goal
  BY <1>3, <1>c, <1>d, Zenon DEF PruneDrop, Writing
<1>4. ASSUME NEW r \in Runner, PruneWrite(r) PROVE Goal
  BY <1>4, <1>c, <1>d, Zenon DEF PruneWrite, Written, WriteFails, Writing
<1>5. ASSUME NEW r \in Runner, SpawnReply(r) PROVE Goal
  BY <1>5, <1>c, <1>e, Zenon DEF SpawnReply
<1>6. ASSUME NEW r \in Runner, RegisterEntry(r) PROVE Goal
  BY <1>6, <1>c, <1>e, Zenon DEF RegisterEntry, Snapshotting
<1>7. ASSUME NEW r \in Runner, RegisterEnvEntry(r) PROVE Goal
  BY <1>7, <1>c, <1>e, Zenon DEF RegisterEnvEntry
<1>8. ASSUME NEW r \in Runner, RegisterWrite(r) PROVE Goal
  BY <1>8, <1>c, <1>d, Zenon DEF RegisterWrite, Written, Writing
<1>9. ASSUME NEW r \in Runner, RegisterWriteFails(r) PROVE Goal
  BY <1>9, <1>c, <1>d, Zenon DEF RegisterWriteFails, WriteFails, Abandon, Writing
<1>10. ASSUME NEW r \in Runner, WriteRunnerSnapshot(r) PROVE Goal
  BY <1>10, <1>c, <1>e, Zenon DEF WriteRunnerSnapshot
<1>11. ASSUME NEW r \in Runner, CleanupEntry(r) PROVE Goal
  BY <1>11, <1>c, <1>e, Zenon DEF CleanupEntry, Snapshotting
<1>12. ASSUME NEW r \in Runner, CleanupWrite(r) PROVE Goal
  BY <1>12, <1>c, <1>d, Zenon DEF CleanupWrite, Written, WriteFails, Abandon, Writing
<1>13. ASSUME NEW r \in Runner, StopVm(r) PROVE Goal
  BY <1>13, <1>c, <1>e, Zenon DEF StopVm
<1>14. ASSUME NEW r \in Runner, WaitReapLog(r) PROVE Goal
  BY <1>14, <1>c, <1>e, Zenon DEF WaitReapLog
<1>15. ASSUME NEW r \in Runner, WaitGone(r) PROVE Goal
  BY <1>15, <1>c, <1>e, Zenon DEF WaitGone
<1>16. ASSUME NEW r \in Runner, FinishEntry(r) PROVE Goal
  BY <1>16, <1>c, <1>e, Zenon DEF FinishEntry
<1>17. ASSUME NEW r \in Runner, FinishSnapshot(r) PROVE Goal
  BY <1>17, <1>c, <1>e, Zenon DEF FinishSnapshot
<1>18. ASSUME NEW r \in Runner, FinalSnapshot(r) PROVE Goal
  BY <1>18, <1>c, <1>e, Zenon DEF FinalSnapshot, Snapshotting
<1>19. ASSUME NEW r \in Runner, FinalWrite(r) PROVE Goal
  BY <1>19, <1>c, <1>d, Zenon DEF FinalWrite, Written, WriteFails, Writing
<1>20. ASSUME NEW r \in Runner, AdoptClassify(r) PROVE Goal
  BY <1>20, <1>c, <1>e, Zenon DEF AdoptClassify
<1>21. ASSUME NEW r \in Runner, AdoptMissing(r) PROVE Goal
  BY <1>21, <1>c, <1>e, Zenon DEF AdoptMissing
<1>22. ASSUME NEW r \in Runner, AdoptQuarantine(r) PROVE Goal
  BY <1>22, <1>c, <1>e, Zenon DEF AdoptQuarantine
<1>23. ASSUME NEW r \in Runner, AdoptOpen(r) PROVE Goal
  BY <1>23, <1>c, <1>e, Zenon DEF AdoptOpen
<1>24. ASSUME NEW r \in Runner, AdoptRunner(r) PROVE Goal
  <2>1. \A q \in Runner : pc[q] # "pruneDrop" /\ pc'[q] # "pruneDrop"
    BY <1>24, <1>e, Zenon DEF AdoptRunner, ThreadLocals
  <2> QED BY <2>1, Zenon
<1>25. ASSUME NEW r \in Runner, AdoptLeft(r) PROVE Goal
  BY <1>25, <1>c, <1>e, Zenon DEF AdoptLeft
<1>26. CASE Crash
  BY <1>26, <1>c, <1>e, Zenon DEF Crash
<1>27. CASE Restore
  BY <1>27, <1>c, <1>e, Zenon DEF Restore
<1>28. CASE AdoptDone
  BY <1>28, <1>c, <1>e, Zenon DEF AdoptDone
<1>29. CASE AdoptAborted
  BY <1>29, <1>c, <1>e, Zenon DEF AdoptAborted
<1>30. CASE BrokerAlone
  BY <1>30, <1>c, <1>e, Zenon DEF BrokerAlone, Unheard, daemonVars
<1> QED
  BY <1>1, <1>2, <1>3, <1>4, <1>5, <1>6, <1>7, <1>8, <1>9, <1>10, <1>11, <1>12, <1>13,
     <1>14, <1>15, <1>16, <1>17, <1>18, <1>19, <1>20, <1>21, <1>22, <1>23, <1>24, <1>25,
     <1>26, <1>27, <1>28, <1>29, <1>30, NextCases, Zenon DEF LoudAction, Adoption

\* An entry of a live process goes only by a step of its own thread.
LEMMA PruneStep ==
    ASSUME TableInv, Next
    PROVE  \A q \in Runner :
        (up = "up" /\ up' = "up" /\ table[q] # None /\ Alive(table[q]) /\ table'[q] = None)
            => pc[q] # pc'[q]
<1> DEFINE Goal == \A q \in Runner :
        (up = "up" /\ up' = "up" /\ table[q] # None /\ Alive(table[q]) /\ table'[q] = None)
            => pc[q] # pc'[q]
<1>a. SupervisionTypeOK /\ BrokerTypeOK /\ ThreadLocals /\ ScanHolds
  BY Zenon DEF TableInv, RecordsInv, BrokerInv
<1>b. table \in [Runner -> Entry] /\ pc \in [Runner -> PC]
  BY <1>a, Zenon DEF SupervisionTypeOK, Table, Entry
<1> USE <1>a, <1>b DEF Removed, Step, Goto, lifeVars, fileVars
<1>1. ASSUME NEW r \in Runner, QuietAction(r) PROVE Goal
  <2>1. Quiet(r)
    BY <1>a, <1>1, QuietSteps, Zenon
  <2> QED BY <2>1, Zenon DEF Quiet, QuietMove
<1>2. ASSUME NEW r \in Runner, PruneScan(r) PROVE Goal
  BY <1>2, Zenon DEF PruneScan, Stale
<1>3. ASSUME NEW r \in Runner, PruneDrop(r) PROVE Goal
  BY <1>3, Zenon DEF PruneDrop, ScanHolds, Entry
<1>4. ASSUME NEW r \in Runner, PruneWrite(r) PROVE Goal
  BY <1>4, Zenon DEF PruneWrite, Written, WriteFails
<1>5. ASSUME NEW r \in Runner, SpawnReply(r) PROVE Goal
  BY <1>5, Zenon DEF SpawnReply
<1>6. ASSUME NEW r \in Runner, RegisterEntry(r) PROVE Goal
  BY <1>6, Zenon DEF RegisterEntry, Snapshotting
<1>7. ASSUME NEW r \in Runner, RegisterEnvEntry(r) PROVE Goal
  BY <1>7, Zenon DEF RegisterEnvEntry
<1>8. ASSUME NEW r \in Runner, RegisterWrite(r) PROVE Goal
  BY <1>8, Zenon DEF RegisterWrite, Written
<1>9. ASSUME NEW r \in Runner, RegisterWriteFails(r) PROVE Goal
  <2>1. pc'[r] # pc[r]
    BY <1>9, Zenon DEF RegisterWriteFails, Abandon
  <2> QED BY <1>9, <2>1, Zenon DEF RegisterWriteFails
<1>10. ASSUME NEW r \in Runner, WriteRunnerSnapshot(r) PROVE Goal
  BY <1>10, Zenon DEF WriteRunnerSnapshot
<1>11. ASSUME NEW r \in Runner, CleanupEntry(r) PROVE Goal
  BY <1>11, Zenon DEF CleanupEntry, Snapshotting
<1>12. ASSUME NEW r \in Runner, CleanupWrite(r) PROVE Goal
  BY <1>12, Zenon DEF CleanupWrite, Written, WriteFails, Abandon
<1>13. ASSUME NEW r \in Runner, StopVm(r) PROVE Goal
  BY <1>13, Zenon DEF StopVm
<1>14. ASSUME NEW r \in Runner, WaitReapLog(r) PROVE Goal
  BY <1>14, Zenon DEF WaitReapLog
<1>15. ASSUME NEW r \in Runner, WaitGone(r) PROVE Goal
  BY <1>15, Zenon DEF WaitGone
<1>16. ASSUME NEW r \in Runner, FinishEntry(r) PROVE Goal
  BY <1>16, Zenon DEF FinishEntry
<1>17. ASSUME NEW r \in Runner, FinishSnapshot(r) PROVE Goal
  BY <1>17, Zenon DEF FinishSnapshot
<1>18. ASSUME NEW r \in Runner, FinalSnapshot(r) PROVE Goal
  BY <1>18, Zenon DEF FinalSnapshot, Snapshotting
<1>19. ASSUME NEW r \in Runner, FinalWrite(r) PROVE Goal
  BY <1>19, Zenon DEF FinalWrite, Written, WriteFails
<1>20. ASSUME NEW r \in Runner, AdoptClassify(r) PROVE Goal
  BY <1>20, Zenon DEF AdoptClassify
<1>21. ASSUME NEW r \in Runner, AdoptMissing(r) PROVE Goal
  BY <1>21, Zenon DEF AdoptMissing
<1>22. ASSUME NEW r \in Runner, AdoptQuarantine(r) PROVE Goal
  BY <1>22, Zenon DEF AdoptQuarantine
<1>23. ASSUME NEW r \in Runner, AdoptOpen(r) PROVE Goal
  BY <1>23, Zenon DEF AdoptOpen
<1>24. ASSUME NEW r \in Runner, AdoptRunner(r) PROVE Goal
  BY <1>24, Zenon DEF AdoptRunner
<1>25. ASSUME NEW r \in Runner, AdoptLeft(r) PROVE Goal
  BY <1>25, Zenon DEF AdoptLeft
<1>26. CASE Crash
  BY <1>26, Zenon DEF Crash
<1>27. CASE Restore
  BY <1>27, Zenon DEF Restore
<1>28. CASE AdoptDone
  BY <1>28, Zenon DEF AdoptDone
<1>29. CASE AdoptAborted
  BY <1>29, Zenon DEF AdoptAborted
<1>30. CASE BrokerAlone
  BY <1>30, Zenon DEF BrokerAlone, Unheard, daemonVars
<1> QED
  BY <1>1, <1>2, <1>3, <1>4, <1>5, <1>6, <1>7, <1>8, <1>9, <1>10, <1>11, <1>12, <1>13,
     <1>14, <1>15, <1>16, <1>17, <1>18, <1>19, <1>20, <1>21, <1>22, <1>23, <1>24, <1>25,
     <1>26, <1>27, <1>28, <1>29, <1>30, NextCases, Zenon DEF LoudAction, Adoption

\* An entry without a snapshot of its own stays in the table's file, whoever writes it.
LEMMA PersistStep ==
    ASSUME TableInv, Persisted, Next
    PROVE  Persisted'
<1> DEFINE Goal == Persisted'
<1>a. BrokerTypeOK /\ SupervisionTypeOK /\ ThreadLocals /\ None \notin Runner /\ None \notin Inst
      /\ EntryAtPc /\ Persisted
  BY NoneAssumption, Zenon DEF TableInv, RecordsInv, BrokerInv
<1>b. /\ table \in [Runner -> Entry] /\ mine \in [Runner -> Entry] /\ pc \in [Runner -> PC] /\ disk \in [Runner -> Entry]
      /\ snapDisk \in [Runner -> Entry] /\ copy \in [Runner -> [Runner -> Entry]] /\ up \in {"down", "adopt", "up"}
  BY <1>a, Zenon DEF SupervisionTypeOK, Table, Entry
<1>c. up # "up" => \A q \in Runner : pc[q] \notin Writing \union Registering
  BY <1>a, Zenon DEF ThreadLocals, Writing, Registering
<1> USE <1>a, <1>b DEF Persisted, Writing, Registering, Removed, Step, Goto, lifeVars, fileVars
<1>1. ASSUME NEW r \in Runner, QuietAction(r) PROVE Goal
  <2>1. Quiet(r)
    BY <1>a, <1>1, QuietSteps, Zenon
  <2>2. UNCHANGED <<up, table, disk, snapDisk, adopting, copy>>
    BY <2>1, Zenon DEF Quiet
  <2>3. \A q \in Runner : /\ pc'[q] \in Writing => pc[q] \in Writing
                          /\ pc'[q] \in Registering \/ pc[q] \notin Registering
    BY <2>1, Zenon DEF Quiet, QuietMove
  <2> HIDE DEF Writing, Registering
  <2> QED BY <2>2, <2>3, Zenon
<1>2. ASSUME NEW r \in Runner, PruneScan(r) PROVE Goal
  BY <1>2, Zenon DEF PruneScan, Stale
<1>3. ASSUME NEW r \in Runner, PruneDrop(r) PROVE Goal
  <2>1. UNCHANGED <<up, disk, snapDisk, adopting>> /\ \A q \in Runner : table'[q] # None => table'[q] = table[q]
    BY <1>3, Zenon DEF PruneDrop
  <2>2. \A q \in Runner : pc'[q] \in Writing => copy'[q] = table' \/ (pc[q] \in Writing /\ copy'[q] = copy[q])
    BY <1>3, Zenon DEF PruneDrop
  <2>3. \A q \in Runner : pc'[q] \in Registering \/ pc[q] \notin Registering
    BY <1>3, Zenon DEF PruneDrop
  <2> HIDE DEF Writing, Registering
  <2> QED BY <2>1, <2>2, <2>3, Zenon
<1>4. ASSUME NEW r \in Runner, PruneWrite(r) PROVE Goal
  <2>1. (disk' = copy[r] \/ disk' = disk) /\ up = "up" /\ pc[r] \in Writing /\ pc[r] \notin Registering
    BY <1>4, Zenon DEF PruneWrite, Written, WriteFails
  <2>2. \A q \in Runner : pc'[q] \in Writing => pc[q] \in Writing /\ copy'[q] = copy[q]
    BY <1>4, Zenon DEF PruneWrite, Written, WriteFails, Abandon
  <2>3. UNCHANGED <<up, table, adopting>> /\ \A q \in Runner : pc'[q] \in Registering \/ pc[q] \notin Registering
    BY <1>4, Zenon DEF PruneWrite, Abandon
  <2>4. \A q \in Runner : (table[q] # None /\ table[q] # snapDisk'[q]) => snapDisk'[q] = snapDisk[q]
    BY <1>4, Zenon DEF PruneWrite, EntryAtPc, After
  <2> HIDE DEF Writing, Registering
  <2>5. \A q \in Runner : (table[q] # None /\ pc[q] \notin Registering /\ table[q] # snapDisk[q]) =>
            /\ disk'[q] = table[q]
            /\ \A x \in Runner : pc'[x] \in Writing => copy'[x][q] = table[q]
    BY <2>1, <2>2, Zenon
  <2> QED BY <2>1, <2>3, <2>4, <2>5, Zenon
<1>5. ASSUME NEW r \in Runner, SpawnReply(r) PROVE Goal
  BY <1>5, Zenon DEF SpawnReply
<1>6. ASSUME NEW r \in Runner, RegisterEntry(r) PROVE Goal
  BY <1>6, Zenon DEF RegisterEntry, Snapshotting
<1>7. ASSUME NEW r \in Runner, RegisterEnvEntry(r) PROVE Goal
  BY <1>7, Zenon DEF RegisterEnvEntry
<1>8. ASSUME NEW r \in Runner, RegisterWrite(r) PROVE Goal
  BY <1>8, Zenon DEF RegisterWrite, Written
<1>9. ASSUME NEW r \in Runner, RegisterWriteFails(r) PROVE Goal
  BY <1>9, Zenon DEF RegisterWriteFails, WriteFails, Abandon
<1>10. ASSUME NEW r \in Runner, WriteRunnerSnapshot(r) PROVE Goal
  BY <1>10, Zenon DEF WriteRunnerSnapshot, EntryAtPc, With
<1>11. ASSUME NEW r \in Runner, CleanupEntry(r) PROVE Goal
  BY <1>11, Zenon DEF CleanupEntry, Snapshotting
<1>12. ASSUME NEW r \in Runner, CleanupWrite(r) PROVE Goal
  <2>1. (disk' = copy[r] \/ disk' = disk) /\ up = "up" /\ pc[r] \in Writing /\ pc[r] \notin Registering
    BY <1>12, Zenon DEF CleanupWrite, Written, WriteFails
  <2>2. \A q \in Runner : pc'[q] \in Writing => pc[q] \in Writing /\ copy'[q] = copy[q]
    BY <1>12, Zenon DEF CleanupWrite, Written, WriteFails, Abandon
  <2>3. UNCHANGED <<up, table, adopting>> /\ \A q \in Runner : pc'[q] \in Registering \/ pc[q] \notin Registering
    BY <1>12, Zenon DEF CleanupWrite, Abandon
  <2>4. \A q \in Runner : (table[q] # None /\ table[q] # snapDisk'[q]) => snapDisk'[q] = snapDisk[q]
    BY <1>12, Zenon DEF CleanupWrite, EntryAtPc, After
  <2> HIDE DEF Writing, Registering
  <2>5. \A q \in Runner : (table[q] # None /\ pc[q] \notin Registering /\ table[q] # snapDisk[q]) =>
            /\ disk'[q] = table[q]
            /\ \A x \in Runner : pc'[x] \in Writing => copy'[x][q] = table[q]
    BY <2>1, <2>2, Zenon
  <2> QED BY <2>1, <2>3, <2>4, <2>5, Zenon
<1>13. ASSUME NEW r \in Runner, StopVm(r) PROVE Goal
  BY <1>13, Zenon DEF StopVm
<1>14. ASSUME NEW r \in Runner, WaitReapLog(r) PROVE Goal
  BY <1>14, Zenon DEF WaitReapLog
<1>15. ASSUME NEW r \in Runner, WaitGone(r) PROVE Goal
  BY <1>15, Zenon DEF WaitGone
<1>16. ASSUME NEW r \in Runner, FinishEntry(r) PROVE Goal
  BY <1>16, Zenon DEF FinishEntry
<1>17. ASSUME NEW r \in Runner, FinishSnapshot(r) PROVE Goal
  BY <1>17, Zenon DEF FinishSnapshot, EntryAtPc, After
<1>18. ASSUME NEW r \in Runner, FinalSnapshot(r) PROVE Goal
  BY <1>18, Zenon DEF FinalSnapshot, Snapshotting
<1>19. ASSUME NEW r \in Runner, FinalWrite(r) PROVE Goal
  <2>1. (disk' = copy[r] \/ disk' = disk) /\ up = "up" /\ pc[r] \in Writing /\ pc[r] \notin Registering
    BY <1>19, Zenon DEF FinalWrite, Written, WriteFails
  <2>2. \A q \in Runner : pc'[q] \in Writing => pc[q] \in Writing /\ copy'[q] = copy[q]
    BY <1>19, Zenon DEF FinalWrite, Written, WriteFails, Abandon
  <2>3. UNCHANGED <<up, table, adopting>> /\ \A q \in Runner : pc'[q] \in Registering \/ pc[q] \notin Registering
    BY <1>19, Zenon DEF FinalWrite, Abandon
  <2>4. \A q \in Runner : (table[q] # None /\ table[q] # snapDisk'[q]) => snapDisk'[q] = snapDisk[q]
    BY <1>19, Zenon DEF FinalWrite, EntryAtPc, After
  <2> HIDE DEF Writing, Registering
  <2>5. \A q \in Runner : (table[q] # None /\ pc[q] \notin Registering /\ table[q] # snapDisk[q]) =>
            /\ disk'[q] = table[q]
            /\ \A x \in Runner : pc'[x] \in Writing => copy'[x][q] = table[q]
    BY <2>1, <2>2, Zenon
  <2> QED BY <2>1, <2>3, <2>4, <2>5, Zenon
<1>20. ASSUME NEW r \in Runner, AdoptClassify(r) PROVE Goal
  BY <1>20, Zenon DEF AdoptClassify
<1>21. ASSUME NEW r \in Runner, AdoptMissing(r) PROVE Goal
  BY <1>21, Zenon DEF AdoptMissing
<1>22. ASSUME NEW r \in Runner, AdoptQuarantine(r) PROVE Goal
  BY <1>22, Zenon DEF AdoptQuarantine
<1>23. ASSUME NEW r \in Runner, AdoptOpen(r) PROVE Goal
  BY <1>23, Zenon DEF AdoptOpen
<1>24. ASSUME NEW r \in Runner, AdoptRunner(r) PROVE Goal
  <2>1. /\ registry'[r] = snapDisk[r] /\ r \in adopting /\ up = "adopt"
    <3>1. spc = "verify" /\ sid = r /\ StartTimeMatches /\ registry' = [registry EXCEPT ![sid] = sinst]
      BY <1>24, Zenon DEF AdoptRunner, OpenSucceeds, OpenVerified
    <3>2. want \in Inst /\ sinst \in Inst /\ (Exists(want) => sinst = want)
      BY <3>1, Zenon DEF TableInv, RecordsInv, BrokerInv, Locals, LoopLocals
    <3>3. Exists(want)
      BY <3>1, <3>2, Zenon DEF StartTimeMatches, Exists
    <3>4. want = snapDisk[r] /\ r \in adopting /\ up = "adopt"
      BY <1>24, <3>1, Zenon DEF AdoptRunner, ThreadLocals
    <3> QED BY <3>1, <3>2, <3>3, <3>4, Zenon DEF BrokerTypeOK
  <2> QED BY <1>24, <2>1, Zenon DEF AdoptRunner
<1>25. ASSUME NEW r \in Runner, AdoptLeft(r) PROVE Goal
  BY <1>25, Zenon DEF AdoptLeft
<1>26. CASE Crash
  BY <1>26, Zenon DEF Crash
<1>27. CASE Restore
  BY <1>27, <1>c, Zenon DEF Restore
<1>28. CASE AdoptDone
  BY <1>28, <1>c, Zenon DEF AdoptDone
<1>29. CASE AdoptAborted
  BY <1>29, <1>c, Zenon DEF AdoptAborted
<1>30. CASE BrokerAlone
  BY <1>30, Zenon DEF BrokerAlone, Unheard, daemonVars
<1> QED
  BY <1>1, <1>2, <1>3, <1>4, <1>5, <1>6, <1>7, <1>8, <1>9, <1>10, <1>11, <1>12, <1>13,
     <1>14, <1>15, <1>16, <1>17, <1>18, <1>19, <1>20, <1>21, <1>22, <1>23, <1>24, <1>25,
     <1>26, <1>27, <1>28, <1>29, <1>30, NextCases, Zenon DEF LoudAction, Adoption

\* When all take the guard, a thread between copy and write is the only one that may
\* have put an entry into the table.
LEMMA CurrentStep ==
    ASSUME EnvRunner = {}, TableInv, Persisted, CopiesAreCurrent, Next
    PROVE  CopiesAreCurrent'
<1> DEFINE Goal == CopiesAreCurrent'
<1>a. BrokerTypeOK /\ SupervisionTypeOK /\ ThreadLocals /\ None \notin Runner /\ None \notin Inst
      /\ GuardHeld /\ EntryAtPc /\ Persisted /\ CopiesAreCurrent
  BY NoneAssumption, Zenon DEF TableInv, RecordsInv, BrokerInv
<1>b. /\ table \in [Runner -> Entry] /\ mine \in [Runner -> Entry] /\ pc \in [Runner -> PC] /\ disk \in [Runner -> Entry]
      /\ snapDisk \in [Runner -> Entry] /\ copy \in [Runner -> [Runner -> Entry]] /\ up \in {"down", "adopt", "up"}
  BY <1>a, Zenon DEF SupervisionTypeOK, Table, Entry
<1>c. up # "up" => \A q \in Runner : pc[q] \notin Writing
  BY <1>a, Zenon DEF ThreadLocals, Writing
<1>d. \A q \in Runner : pc[q] \in Writing => guard = q
  BY <1>a, Zenon DEF GuardHeld
<1> USE <1>a, <1>b DEF CopiesAreCurrent, CrashSafe, Writing, Removed, Step, Goto, lifeVars, fileVars
<1>1. ASSUME NEW r \in Runner, QuietAction(r) PROVE Goal
  <2>1. Quiet(r)
    BY <1>a, <1>1, QuietSteps, Zenon
  <2> QED BY <2>1, Zenon DEF Quiet, QuietMove
<1>2. ASSUME NEW r \in Runner, PruneScan(r) PROVE Goal
  BY <1>2, <1>d, Zenon DEF PruneScan, Stale
<1>3. ASSUME NEW r \in Runner, PruneDrop(r) PROVE Goal
  BY <1>3, <1>d, Zenon DEF PruneDrop
<1>4. ASSUME NEW r \in Runner, PruneWrite(r) PROVE Goal
  BY <1>4, <1>d, Zenon DEF PruneWrite, Written, WriteFails
<1>5. ASSUME NEW r \in Runner, SpawnReply(r) PROVE Goal
  BY <1>5, <1>d, Zenon DEF SpawnReply
<1>6. ASSUME NEW r \in Runner, RegisterEntry(r) PROVE Goal
  BY <1>6, <1>d, Zenon DEF RegisterEntry, Snapshotting
<1>7. ASSUME NEW r \in Runner, RegisterEnvEntry(r) PROVE Goal
  BY <1>7, <1>d, Zenon DEF RegisterEnvEntry
<1>8. ASSUME NEW r \in Runner, RegisterWrite(r) PROVE Goal
  BY <1>8, <1>d, Zenon DEF RegisterWrite, Written
<1>9. ASSUME NEW r \in Runner, RegisterWriteFails(r) PROVE Goal
  BY <1>9, <1>d, Zenon DEF RegisterWriteFails, WriteFails, Abandon
<1>10. ASSUME NEW r \in Runner, WriteRunnerSnapshot(r) PROVE Goal
  BY <1>10, Zenon DEF WriteRunnerSnapshot, EntryAtPc, With
<1>11. ASSUME NEW r \in Runner, CleanupEntry(r) PROVE Goal
  BY <1>11, <1>d, Zenon DEF CleanupEntry, Snapshotting
<1>12. ASSUME NEW r \in Runner, CleanupWrite(r) PROVE Goal
  <2>1. disk' \in {copy[r], disk} /\ pc[r] = "cleanupWrite"
    BY <1>12, Zenon DEF CleanupWrite, Written, WriteFails
  <2>2. \A q \in Runner : pc'[q] \in Writing => pc[q] \in Writing /\ copy'[q] = copy[q]
    BY <1>12, Zenon DEF CleanupWrite, Written, WriteFails, Abandon
  <2>3. UNCHANGED <<up, table>> /\ \A q \in Runner : pc'[q] = "registerWrite" <=> pc[q] = "registerWrite"
    BY <1>12, Zenon DEF CleanupWrite, Abandon
  <2>4. \A q \in Runner : table[q] # None => snapDisk'[q] = snapDisk[q]
    BY <1>12, Zenon DEF CleanupWrite, EntryAtPc, After
  <2> QED BY <2>1, <2>2, <2>3, <2>4, Zenon
<1>13. ASSUME NEW r \in Runner, StopVm(r) PROVE Goal
  BY <1>13, <1>d, Zenon DEF StopVm
<1>14. ASSUME NEW r \in Runner, WaitReapLog(r) PROVE Goal
  BY <1>14, <1>d, Zenon DEF WaitReapLog
<1>15. ASSUME NEW r \in Runner, WaitGone(r) PROVE Goal
  BY <1>15, <1>d, Zenon DEF WaitGone
<1>16. ASSUME NEW r \in Runner, FinishEntry(r) PROVE Goal
  BY <1>16, <1>d, Zenon DEF FinishEntry
<1>17. ASSUME NEW r \in Runner, FinishSnapshot(r) PROVE Goal
  BY <1>17, Zenon DEF FinishSnapshot, EntryAtPc, After
<1>18. ASSUME NEW r \in Runner, FinalSnapshot(r) PROVE Goal
  BY <1>18, <1>d, Zenon DEF FinalSnapshot, Snapshotting
<1>19. ASSUME NEW r \in Runner, FinalWrite(r) PROVE Goal
  BY <1>19, <1>d, Zenon DEF FinalWrite, Written, WriteFails
<1>20. ASSUME NEW r \in Runner, AdoptClassify(r) PROVE Goal
  BY <1>20, <1>d, Zenon DEF AdoptClassify
<1>21. ASSUME NEW r \in Runner, AdoptMissing(r) PROVE Goal
  BY <1>21, <1>d, Zenon DEF AdoptMissing
<1>22. ASSUME NEW r \in Runner, AdoptQuarantine(r) PROVE Goal
  BY <1>22, <1>d, Zenon DEF AdoptQuarantine
<1>23. ASSUME NEW r \in Runner, AdoptOpen(r) PROVE Goal
  BY <1>23, <1>d, Zenon DEF AdoptOpen
<1>24. ASSUME NEW r \in Runner, AdoptRunner(r) PROVE Goal
  BY <1>24, <1>c, Zenon DEF AdoptRunner, ThreadLocals
<1>25. ASSUME NEW r \in Runner, AdoptLeft(r) PROVE Goal
  BY <1>25, <1>d, Zenon DEF AdoptLeft
<1>26. CASE Crash
  BY <1>26, <1>d, Zenon DEF Crash
<1>27. CASE Restore
  BY <1>27, <1>c, Zenon DEF Restore
<1>28. CASE AdoptDone
  BY <1>28, <1>c, Zenon DEF AdoptDone, Persisted
<1>29. CASE AdoptAborted
  BY <1>29, <1>c, Zenon DEF AdoptAborted, Persisted
<1>30. CASE BrokerAlone
  BY <1>30, <1>d, Zenon DEF BrokerAlone, Unheard, daemonVars
<1> QED
  BY <1>1, <1>2, <1>3, <1>4, <1>5, <1>6, <1>7, <1>8, <1>9, <1>10, <1>11, <1>12, <1>13,
     <1>14, <1>15, <1>16, <1>17, <1>18, <1>19, <1>20, <1>21, <1>22, <1>23, <1>24, <1>25,
     <1>26, <1>27, <1>28, <1>29, <1>30, NextCases, Zenon DEF LoudAction, Adoption
-----------------------------------------------------------------------------
\* Nothing of the daemon is changed by a step of somebody else.
LEMMA DaemonStutters ==
    ASSUME UNCHANGED vars
    PROVE  /\ UNCHANGED <<up, crashes, adopting, table, disk, snapDisk, guard, log, pc, mine, phase, copy, dead>>
           /\ UNCHANGED <<st, start, spc, sid, restarts>>
           /\ \A i \in Inst : Alive(i)' = Alive(i)
BY Zenon DEF vars, daemonVars, lifeVars, fileVars, brokerVars, procVars, loopVars, Alive, Exists

LEMMA TableInit == Init => TableInv /\ Persisted /\ CopiesAreCurrent
<1> SUFFICES ASSUME Init PROVE TableInv /\ Persisted /\ CopiesAreCurrent
  BY Zenon
<1>1. RecordsInv /\ \A r \in Runner : pc[r] = "idle" /\ table[r] = None
  BY SupervisionInit, Zenon DEF Init, Empty
<1>2. GuardHeld /\ EntryAtPc /\ ScanHolds
  BY <1>1, Zenon DEF GuardHeld, EntryAtPc, ScanHolds, Writing, Before, With, After
<1>3. Persisted /\ CopiesAreCurrent
  BY <1>1, Zenon DEF Persisted, CopiesAreCurrent, CrashSafe, Writing
<1> QED BY <1>1, <1>2, <1>3, Zenon DEF TableInv

LEMMA TableStep == TableInv /\ [Next]_vars => TableInv'
<1> SUFFICES ASSUME TableInv, [Next]_vars PROVE TableInv'
  BY Zenon
<1>1. RecordsInv'
  BY RecordsInvStep, Zenon DEF TableInv
<1>2. CASE Next
  BY <1>1, <1>2, GuardStep, EntryStep, ScanStep, Zenon DEF TableInv
<1>3. CASE UNCHANGED vars
  BY <1>1, <1>3, DaemonStutters, Zenon DEF TableInv, GuardHeld, EntryAtPc, ScanHolds
<1> QED BY <1>2, <1>3, Zenon

\* What the threads know of the guard, of their own entries and of their scans.
THEOREM TableInvariant == Safety => []TableInv
BY TableInit, TableStep, PTL DEF Safety

\* prune_dead_entries releases the lock between the scan and the removals by key,
\* and yet never takes out a live runner: whoever registers meanwhile takes the
\* guard, or is a per-env spawner whose key the scan cannot have found.
THEOREM PruneIsSafe == Safety => PruneKeepsLive
<1>1. TableInv /\ [Next]_vars =>
        [\A r \in Runner :
            (up = "up" /\ up' = "up" /\ table[r] # None /\ Alive(table[r]) /\ table'[r] = None)
                => pc[r] # pc'[r]]_vars
  BY PruneStep, Zenon
<1> QED BY <1>1, TableInvariant, PTL DEF Safety, PruneKeepsLive

\* Under every fault of the broker and of the file system, and although the
\* per-env spawner writes the table's file without the guard, a runner whose start
\* has returned stays on file.
THEOREM StartsSurvive == Safety => []ReturnedStartSurvives
<1>1. TableInv /\ Persisted /\ [Next]_vars => Persisted'
  <2> SUFFICES ASSUME TableInv, Persisted, [Next]_vars PROVE Persisted'
    BY Zenon
  <2>1. CASE UNCHANGED vars
    BY <2>1, DaemonStutters, Zenon DEF Persisted
  <2> QED BY <2>1, PersistStep, Zenon
<1>2. Persisted => ReturnedStartSurvives
  BY Zenon DEF Persisted, ReturnedStartSurvives, Registering
<1> QED BY <1>1, <1>2, TableInit, TableInvariant, PTL DEF Safety

\* When all that register take the guard, already a runner that is in the table
\* and no longer being written is on file, whatever thread writes next.
THEOREM CrashKeeps == ASSUME EnvRunner = {} PROVE Safety => []CrashSafe
<1>1. TableInv /\ Persisted /\ CopiesAreCurrent /\ [Next]_vars => Persisted' /\ CopiesAreCurrent'
  <2> SUFFICES ASSUME TableInv, Persisted, CopiesAreCurrent, [Next]_vars
               PROVE  Persisted' /\ CopiesAreCurrent'
    BY Zenon
  <2>1. CASE UNCHANGED vars
    BY <2>1, DaemonStutters, Zenon DEF Persisted, CopiesAreCurrent, CrashSafe
  <2> QED BY <2>1, PersistStep, CurrentStep, Zenon
<1>2. CopiesAreCurrent => CrashSafe
  BY Zenon DEF CopiesAreCurrent
<1> QED BY <1>1, <1>2, TableInit, TableInvariant, PTL DEF Safety
-----------------------------------------------------------------------------
\* The request loop does nothing else between the two looks at /proc.
LEMMA ServedOn ==
    ASSUME BrokerTypeOK, spc = "verify", BrokerInternal, restarts' = 0
    PROVE  UNCHANGED <<spc, sid>>
<1>1. ~BrokerRestart
  BY DEF BrokerRestart, BrokerTypeOK
<1> QED
  BY <1>1, Zenon DEF BrokerInternal, ReaperStep, SpawnStep, Exit, HostFork, ReaperWake, ReaperPick, ReaperWaitid,
     ReaperRemove, ReaperPush, ReaperDone, SpawnClone, SpawnAborted, SpawnRegister,
     SpawnTargetedReap, SpawnRegisterFailed, loopVars

\* The stops and the adoptions stay as far as they say they are.
LEMMA StopAdoptStep ==
    ASSUME TableInv, Persisted, SupervisedInv, Answering, Answering', Next
    PROVE  StopAndAdopt'
<1> DEFINE Goal == StopAndAdopt'
<1>a. /\ BrokerTypeOK /\ SupervisionTypeOK /\ ThreadLocals /\ None \notin Runner /\ None \notin Inst
      /\ EntryAtPc /\ GuardHeld /\ ScanHolds /\ StopAndAdopt /\ "io" \notin Faults /\ "rpc" \notin Faults
      /\ EnvRunner = {}
  BY NoneAssumption, Zenon DEF TableInv, RecordsInv, BrokerInv, SupervisedInv, Answering
<1>b. /\ table \in [Runner -> Entry] /\ mine \in [Runner -> Entry] /\ pc \in [Runner -> PC] /\ disk \in [Runner -> Entry]
      /\ snapDisk \in [Runner -> Entry] /\ copy \in [Runner -> [Runner -> Entry]] /\ up \in {"down", "adopt", "up"}
  BY <1>a, Zenon DEF SupervisionTypeOK, Table, Entry
<1>c. \A r \in Runner, i \in Inst : (table[r] = i \/ mine[r] = i) /\ Alive(i)' => Alive(i)
  <2>1. \A r \in Runner, i \in Inst : (table[r] = i \/ mine[r] = i) => i.start <= ticks
    BY <1>a, Zenon DEF TableInv, RecordsInv, RecordsAreOwn, Recorded
  <2> QED BY <2>1, RecordFacts, Zenon DEF TableInv
<1>d. \A r \in Runner : pc[r] = "adoptVerify" => up = "adopt"
  BY <1>a, Zenon DEF ThreadLocals
<1> USE <1>a, <1>b DEF StopAndAdopt, Removed, Step, Goto, lifeVars, fileVars
<1>1. ASSUME NEW r \in Runner, QuietAction(r) PROVE Goal
  <2>1. Quiet(r)
    BY <1>a, <1>1, QuietSteps, Zenon
  <2>2. UNCHANGED <<up, table, disk, snapDisk, copy>> /\ up = "up"
    BY <2>1, Zenon DEF Quiet
  <2>3. \A q \in Runner :
            /\ pc'[q] \notin {"cleanup", "cleanupWrite"}
            /\ pc'[q] \in {"final", "finalWrite"} => pc'[q] = pc[q]
            /\ pc'[q] # "adoptVerify"
    BY <1>d, <2>1, Zenon DEF Quiet, QuietMove, Writing
  <2>4. \A q \in Runner : pc'[q] \in {"registerWrite", "runnerSnapshot"} => pc'[q] = pc[q] /\ mine'[q] = mine[q]
    <3>1. QuietMove(pc[r], pc'[r]) /\ \A q \in Runner \ {r} : pc'[q] = pc[q] /\ mine'[q] = mine[q]
      BY <2>1, Zenon DEF Quiet
    <3>2. pc'[r] # "idle" => mine'[r] = mine[r]
      BY <2>1, Zenon DEF Quiet
    <3>3. pc'[r] \in {"registerWrite", "runnerSnapshot"} => pc'[r] = pc[r]
      BY <3>1, Zenon DEF QuietMove, Writing, With, Spawned
    <3> QED BY <3>1, <3>2, <3>3, Zenon
  <2>5. \A q \in Runner, i \in Inst :
            (pc'[q] \in {"registerWrite", "runnerSnapshot"} /\ mine'[q] = i /\ Alive(i)') => table'[q] = i
    BY <1>c, <2>2, <2>4, Zenon
  <2> QED BY <2>2, <2>3, <2>5, Zenon
<1>2. ASSUME NEW r \in Runner, PruneScan(r) PROVE Goal
  BY <1>2, <1>c, <1>d, Zenon DEF PruneScan, Stale
<1>3. ASSUME NEW r \in Runner, PruneDrop(r) PROVE Goal
  BY <1>3, <1>c, <1>d, Zenon DEF PruneDrop, ScanHolds
<1>4. ASSUME NEW r \in Runner, PruneWrite(r) PROVE Goal
  BY <1>4, <1>c, <1>d, Zenon DEF PruneWrite, Written, WriteFails
<1>5. ASSUME NEW r \in Runner, SpawnReply(r) PROVE Goal
  BY <1>5, <1>c, <1>d, Zenon DEF SpawnReply
<1>6. ASSUME NEW r \in Runner, RegisterEntry(r) PROVE Goal
  BY <1>6, <1>c, <1>d, Zenon DEF RegisterEntry, Snapshotting
<1>7. ASSUME NEW r \in Runner, RegisterEnvEntry(r) PROVE Goal
  BY <1>7, <1>c, <1>d, Zenon DEF RegisterEnvEntry
<1>8. ASSUME NEW r \in Runner, RegisterWrite(r) PROVE Goal
  BY <1>8, <1>c, <1>d, Zenon DEF RegisterWrite, Written
<1>9. ASSUME NEW r \in Runner, RegisterWriteFails(r) PROVE Goal
  BY <1>9, <1>c, <1>d, Zenon DEF RegisterWriteFails, WriteFails, Abandon
<1>10. ASSUME NEW r \in Runner, WriteRunnerSnapshot(r) PROVE Goal
  BY <1>10, <1>c, <1>d, Zenon DEF WriteRunnerSnapshot
<1>11. ASSUME NEW r \in Runner, CleanupEntry(r) PROVE Goal
  BY <1>11, <1>c, <1>d, Zenon DEF CleanupEntry, Snapshotting
<1>12. ASSUME NEW r \in Runner, CleanupWrite(r) PROVE Goal
  BY <1>12, <1>c, <1>d, Zenon DEF CleanupWrite, Written, WriteFails, Abandon
<1>13. ASSUME NEW r \in Runner, StopVm(r) PROVE Goal
  BY <1>13, <1>c, <1>d, Zenon DEF StopVm
<1>14. ASSUME NEW r \in Runner, WaitReapLog(r) PROVE Goal
  BY <1>14, <1>c, <1>d, Zenon DEF WaitReapLog
<1>15. ASSUME NEW r \in Runner, WaitGone(r) PROVE Goal
  BY <1>15, <1>c, <1>d, Zenon DEF WaitGone
<1>16. ASSUME NEW r \in Runner, FinishEntry(r) PROVE Goal
  BY <1>16, <1>c, <1>d, Zenon DEF FinishEntry
<1>17. ASSUME NEW r \in Runner, FinishSnapshot(r) PROVE Goal
  BY <1>17, <1>c, <1>d, Zenon DEF FinishSnapshot
<1>18. ASSUME NEW r \in Runner, FinalSnapshot(r) PROVE Goal
  BY <1>18, <1>c, <1>d, Zenon DEF FinalSnapshot, Snapshotting, EntryAtPc, After
<1>19. ASSUME NEW r \in Runner, FinalWrite(r) PROVE Goal
  BY <1>19, <1>c, <1>d, Zenon DEF FinalWrite, Written, WriteFails
<1>20. ASSUME NEW r \in Runner, AdoptClassify(r) PROVE Goal
  BY <1>20, <1>c, Zenon DEF AdoptClassify, brokerVars, loopVars
<1>21. ASSUME NEW r \in Runner, AdoptMissing(r) PROVE Goal
  <2>1. UNCHANGED <<spc, sid, table, pc, mine, copy>>
    BY <1>21, Zenon DEF AdoptMissing, brokerVars, loopVars
  <2>2. \A q \in Runner : snapDisk[q] = None => snapDisk'[q] = None
    BY <1>21, Zenon DEF AdoptMissing
  <2> QED BY <1>c, <2>1, <2>2, Zenon
<1>22. ASSUME NEW r \in Runner, AdoptQuarantine(r) PROVE Goal
  BY <1>22, <1>c, Zenon DEF AdoptQuarantine, brokerVars, loopVars
<1>23. ASSUME NEW r \in Runner, AdoptOpen(r) PROVE Goal
  <2>1. spc = "accept" /\ spc' = "verify" /\ sid' = r
    BY <1>23, Zenon DEF AdoptOpen, OpenPidfd, Serving
  <2> QED BY <1>23, <1>c, <2>1, Zenon DEF AdoptOpen
<1>24. ASSUME NEW r \in Runner, AdoptRunner(r) PROVE Goal
  <2>1. spc = "verify" /\ sid = r /\ \A q \in Runner \ {r} : pc[q] # "adoptVerify"
    BY <1>24, Zenon DEF AdoptRunner
  <2> QED BY <1>24, <1>c, <1>d, <2>1, Zenon DEF AdoptRunner, ThreadLocals
<1>25. ASSUME NEW r \in Runner, AdoptLeft(r) PROVE Goal
  <2>1. CASE pc[r] = "adoptVerify"
    <3>1. \A q \in Runner \ {r} : pc[q] # "adoptVerify"
      BY <2>1, Zenon
    <3> QED BY <1>25, <1>c, <1>d, <3>1, Zenon DEF AdoptLeft, ThreadLocals
  <2>2. CASE pc[r] = "adoptOpen"
    <3>1. UNCHANGED <<spc, sid>>
      BY <1>25, <2>2, Zenon DEF AdoptLeft, RpcFails, brokerVars, loopVars
    <3> QED BY <1>25, <1>c, <2>2, <3>1, Zenon DEF AdoptLeft
  <2> QED BY <1>25, <2>1, <2>2, Zenon DEF AdoptLeft
<1>26. CASE Crash
  BY <1>26, Zenon DEF Crash, ThreadLocals
<1>27. CASE Restore
  BY <1>27, Zenon DEF Restore, ThreadLocals
<1>28. CASE AdoptDone
  BY <1>28, Zenon DEF AdoptDone, ThreadLocals
<1>29. CASE AdoptAborted
  BY <1>29, Zenon DEF AdoptAborted, ThreadLocals
<1>30. CASE BrokerAlone
  <2>1. UNCHANGED daemonVars
    BY <1>30, Zenon DEF BrokerAlone, Unheard
  <2>2. (\E q \in Runner : pc[q] = "adoptVerify") => UNCHANGED <<spc, sid>>
    BY <1>30, ServedOn, Zenon DEF BrokerAlone, Unheard, SpawnDone, Answering
  <2> QED BY <1>c, <2>1, <2>2, Zenon DEF daemonVars
<1> QED
  BY <1>1, <1>2, <1>3, <1>4, <1>5, <1>6, <1>7, <1>8, <1>9, <1>10, <1>11, <1>12, <1>13,
     <1>14, <1>15, <1>16, <1>17, <1>18, <1>19, <1>20, <1>21, <1>22, <1>23, <1>24, <1>25,
     <1>26, <1>27, <1>28, <1>29, <1>30, NextCases, Zenon DEF LoudAction, Adoption

\* The pidfd an adoption registers is the snapshot's process.
LEMMA AdoptedIsSnapshot ==
    ASSUME TableInv, NEW r \in Runner, AdoptRunner(r)
    PROVE  registry'[r] = snapDisk[r] /\ r \in adopting /\ up = "adopt"
<1>1. BrokerTypeOK /\ LoopLocals /\ ThreadLocals
  BY Zenon DEF TableInv, RecordsInv, BrokerInv, Locals
<1>2. spc = "verify" /\ sid = r /\ StartTimeMatches /\ registry' = [registry EXCEPT ![sid] = sinst]
  BY Zenon DEF AdoptRunner, OpenSucceeds, OpenVerified
<1>3. want \in Inst /\ sinst \in Inst /\ (Exists(want) => sinst = want)
  BY <1>1, <1>2, Zenon DEF LoopLocals
<1>4. Exists(want)
  BY <1>2, <1>3, NoneAssumption, Zenon DEF StartTimeMatches, Exists
<1>5. want = snapDisk[r] /\ r \in adopting /\ up = "adopt"
  BY <1>1, <1>2, Zenon DEF AdoptRunner, ThreadLocals
<1> QED BY <1>1, <1>2, <1>3, <1>4, <1>5, Zenon DEF BrokerTypeOK

\* No step files a second live process of a runner, and the one on file stays with
\* its thread or with the table.
LEMMA OneAliveStep ==
    ASSUME TableInv, Persisted, SupervisedInv, Answering, Answering', Next
    PROVE  OneAlive'
<1> DEFINE Goal == OneAlive'
<1>a. /\ BrokerTypeOK /\ SupervisionTypeOK /\ ThreadLocals /\ None \notin Runner /\ None \notin Inst
      /\ EntryAtPc /\ GuardHeld /\ ScanHolds /\ StopAndAdopt /\ "io" \notin Faults /\ "rpc" \notin Faults
      /\ EnvRunner = {}
  BY NoneAssumption, Zenon DEF TableInv, RecordsInv, BrokerInv, SupervisedInv, Answering
<1>b. /\ table \in [Runner -> Entry] /\ mine \in [Runner -> Entry] /\ pc \in [Runner -> PC] /\ disk \in [Runner -> Entry]
      /\ snapDisk \in [Runner -> Entry] /\ copy \in [Runner -> [Runner -> Entry]] /\ up \in {"down", "adopt", "up"}
  BY <1>a, Zenon DEF SupervisionTypeOK, Table, Entry
<1>c. \A q \in Runner, i \in Inst : Filed(q, i)' /\ Alive(i)' => Alive(i)
  <2>1. Sources
    BY SourcesStep, Zenon DEF TableInv
  <2>2. \A q \in Runner, i \in Inst : Filed(q, i)' => Recorded(q, i)
    BY <1>a, <2>1, Zenon DEF Sources, Known, Filed
  <2> QED BY <2>2, RecordFacts, Zenon DEF TableInv, Recorded
<1>d. \A q \in Runner, i \in Inst : table'[q] = i => Held(q, i)'
  BY <1>a, EntryStep, Zenon DEF TableInv, EntryAtPc, Held, Finishing, With, After
<1>e. ASSUME up = "up", up' = "up",
             \A q \in Runner, i \in Inst : Filed(q, i)' /\ Alive(i) => Filed(q, i) \/ table'[q] = i,
             \A q \in Runner, i \in Inst : Filed(q, i)' /\ Alive(i) /\ Held(q, i) => table'[q] = i \/ Held(q, i)'
      PROVE  Goal
  BY <1>c, <1>d, <1>e, Zenon DEF SupervisedInv, OneAlive
<1>f. \A q \in Runner, i \in Inst : Filed(q, i) /\ Alive(i) /\ up = "adopt" =>
        /\ table[q] \in {None, i}
        /\ i = disk[q] => table[q] = i
        /\ i = snapDisk[q] /\ q \notin adopting => table[q] = i
  BY Zenon DEF SupervisedInv, OneAlive
<1> USE <1>a, <1>b DEF Removed, Step, Goto, lifeVars, fileVars
<1>1. ASSUME NEW r \in Runner, QuietAction(r) PROVE Goal
  <2>0. Quiet(r)
    BY <1>a, <1>1, QuietSteps, Zenon
  <2>1. \A q \in Runner, i \in Inst : Filed(q, i)' => Filed(q, i)
    <3>1. UNCHANGED <<disk, snapDisk, copy>> /\ \A q \in Runner : pc'[q] \in Writing => pc[q] \in Writing
      BY <2>0, Zenon DEF Quiet, QuietMove
    <3> HIDE DEF Writing
    <3> QED BY <3>1, Zenon DEF Filed
  <2>2. \A q \in Runner, i \in Inst : Held(q, i) => table'[q] = i \/ Held(q, i)'
    <3>1. UNCHANGED table /\ \A q \in Runner : pc[q] \in Finishing => pc'[q] \in Finishing /\ mine'[q] = mine[q]
      BY <2>0, Zenon DEF Quiet, QuietMove, Finishing
    <3> QED BY <3>1, Zenon DEF Held
  <2>3. up = "up" /\ up' = "up"
    BY <2>0, Zenon DEF Quiet
  <2> QED BY <1>e, <2>1, <2>2, <2>3, Zenon
<1>2. ASSUME NEW r \in Runner, PruneScan(r) PROVE Goal
  <2>1. \A q \in Runner, i \in Inst : Filed(q, i)' /\ Alive(i) => Filed(q, i) \/ table'[q] = i
    BY <1>2, Zenon DEF PruneScan, Stale, Filed, Writing
  <2>2. \A q \in Runner, i \in Inst : Held(q, i) /\ Alive(i) => table'[q] = i \/ Held(q, i)'
    BY <1>2, Zenon DEF PruneScan, Stale, Held, Finishing
  <2>3. up = "up" /\ up' = "up"
    BY <1>2, Zenon DEF PruneScan
  <2> QED BY <1>e, <2>1, <2>2, <2>3, Zenon
<1>3. ASSUME NEW r \in Runner, PruneDrop(r) PROVE Goal
  <2>1. \A q \in Runner, i \in Inst : Filed(q, i)' /\ Alive(i) => Filed(q, i) \/ table'[q] = i
    BY <1>3, Zenon DEF PruneDrop, Filed, Writing
  <2>2. \A q \in Runner, i \in Inst : Held(q, i) /\ Alive(i) => table'[q] = i \/ Held(q, i)'
    BY <1>3, Zenon DEF PruneDrop, Held, Finishing, ScanHolds
  <2>3. up = "up" /\ up' = "up"
    BY <1>3, Zenon DEF PruneDrop
  <2> QED BY <1>e, <2>1, <2>2, <2>3, Zenon
<1>4. ASSUME NEW r \in Runner, PruneWrite(r) PROVE Goal
  <2>1. \A q \in Runner, i \in Inst : Filed(q, i)' /\ Alive(i) => Filed(q, i) \/ table'[q] = i
    BY <1>4, Zenon DEF PruneWrite, Written, WriteFails, Filed, Writing
  <2>2. \A q \in Runner, i \in Inst : Held(q, i) /\ Alive(i) => table'[q] = i \/ Held(q, i)'
    BY <1>4, Zenon DEF PruneWrite, Written, WriteFails, Held, Finishing
  <2>3. up = "up" /\ up' = "up"
    BY <1>4, Zenon DEF PruneWrite
  <2> QED BY <1>e, <2>1, <2>2, <2>3, Zenon
<1>5. ASSUME NEW r \in Runner, SpawnReply(r) PROVE Goal
  <2>1. \A q \in Runner, i \in Inst : Filed(q, i)' /\ Alive(i) => Filed(q, i) \/ table'[q] = i
    BY <1>5, Zenon DEF SpawnReply, Filed, Writing
  <2>2. \A q \in Runner, i \in Inst : Held(q, i) /\ Alive(i) => table'[q] = i \/ Held(q, i)'
    BY <1>5, Zenon DEF SpawnReply, Held, Finishing
  <2>3. up = "up" /\ up' = "up"
    BY <1>5, Zenon DEF SpawnReply
  <2> QED BY <1>e, <2>1, <2>2, <2>3, Zenon
<1>6. ASSUME NEW r \in Runner, RegisterEntry(r) PROVE Goal
  <2>1. \A q \in Runner, i \in Inst : Filed(q, i)' /\ Alive(i) => Filed(q, i) \/ table'[q] = i
    BY <1>6, Zenon DEF RegisterEntry, Snapshotting, Filed, Writing
  <2>2. \A q \in Runner, i \in Inst : Held(q, i) /\ Alive(i) => table'[q] = i \/ Held(q, i)'
    BY <1>6, Zenon DEF RegisterEntry, Snapshotting, Held, Finishing
  <2>3. up = "up" /\ up' = "up"
    BY <1>6, Zenon DEF RegisterEntry
  <2> QED BY <1>e, <2>1, <2>2, <2>3, Zenon
<1>7. ASSUME NEW r \in Runner, RegisterEnvEntry(r) PROVE Goal
  BY <1>7, Zenon DEF RegisterEnvEntry
<1>8. ASSUME NEW r \in Runner, RegisterWrite(r) PROVE Goal
  <2>1. \A q \in Runner, i \in Inst : Filed(q, i)' /\ Alive(i) => Filed(q, i) \/ table'[q] = i
    BY <1>8, Zenon DEF RegisterWrite, Written, Filed, Writing
  <2>2. \A q \in Runner, i \in Inst : Held(q, i) /\ Alive(i) => table'[q] = i \/ Held(q, i)'
    BY <1>8, Zenon DEF RegisterWrite, Written, Held, Finishing
  <2>3. up = "up" /\ up' = "up"
    BY <1>8, Zenon DEF RegisterWrite
  <2> QED BY <1>e, <2>1, <2>2, <2>3, Zenon
<1>9. ASSUME NEW r \in Runner, RegisterWriteFails(r) PROVE Goal
  BY <1>9, Zenon DEF RegisterWriteFails, WriteFails
<1>10. ASSUME NEW r \in Runner, WriteRunnerSnapshot(r) PROVE Goal
  <2>1. \A q \in Runner, i \in Inst : Filed(q, i)' /\ Alive(i) => Filed(q, i) \/ table'[q] = i
    BY <1>10, Zenon DEF WriteRunnerSnapshot, Filed, Writing, StopAndAdopt
  <2>2. \A q \in Runner, i \in Inst : Held(q, i) /\ Alive(i) => table'[q] = i \/ Held(q, i)'
    BY <1>10, Zenon DEF WriteRunnerSnapshot, Held, Finishing
  <2>3. up = "up" /\ up' = "up"
    BY <1>10, Zenon DEF WriteRunnerSnapshot
  <2> QED BY <1>e, <2>1, <2>2, <2>3, Zenon
<1>11. ASSUME NEW r \in Runner, CleanupEntry(r) PROVE Goal
  BY <1>11, Zenon DEF CleanupEntry, StopAndAdopt
<1>12. ASSUME NEW r \in Runner, CleanupWrite(r) PROVE Goal
  BY <1>12, Zenon DEF CleanupWrite, StopAndAdopt
<1>13. ASSUME NEW r \in Runner, StopVm(r) PROVE Goal
  <2>1. \A q \in Runner, i \in Inst : Filed(q, i)' /\ Alive(i) => Filed(q, i) \/ table'[q] = i
    BY <1>13, Zenon DEF StopVm, Filed, Writing
  <2>2. \A q \in Runner, i \in Inst : Held(q, i) /\ Alive(i) => table'[q] = i \/ Held(q, i)'
    BY <1>13, Zenon DEF StopVm, Held, Finishing
  <2>3. up = "up" /\ up' = "up"
    BY <1>13, Zenon DEF StopVm
  <2> QED BY <1>e, <2>1, <2>2, <2>3, Zenon
<1>14. ASSUME NEW r \in Runner, WaitReapLog(r) PROVE Goal
  <2>1. \A q \in Runner, i \in Inst : Filed(q, i)' /\ Alive(i) => Filed(q, i) \/ table'[q] = i
    BY <1>14, Zenon DEF WaitReapLog, Filed, Writing
  <2>2. \A q \in Runner, i \in Inst : Held(q, i) /\ Alive(i) => table'[q] = i \/ Held(q, i)'
    BY <1>14, Zenon DEF WaitReapLog, Held, Finishing, EntryAtPc, With
  <2>3. up = "up" /\ up' = "up"
    BY <1>14, Zenon DEF WaitReapLog
  <2> QED BY <1>e, <2>1, <2>2, <2>3, Zenon
<1>15. ASSUME NEW r \in Runner, WaitGone(r) PROVE Goal
  <2>1. \A q \in Runner, i \in Inst : Filed(q, i)' /\ Alive(i) => Filed(q, i) \/ table'[q] = i
    BY <1>15, Zenon DEF WaitGone, Filed, Writing
  <2>2. \A q \in Runner, i \in Inst : Held(q, i) /\ Alive(i) => table'[q] = i \/ Held(q, i)'
    BY <1>15, Zenon DEF WaitGone, Held, Finishing, EntryAtPc, With
  <2>3. up = "up" /\ up' = "up"
    BY <1>15, Zenon DEF WaitGone
  <2> QED BY <1>e, <2>1, <2>2, <2>3, Zenon
<1>16. ASSUME NEW r \in Runner, FinishEntry(r) PROVE Goal
  <2>1. \A q \in Runner, i \in Inst : Filed(q, i)' /\ Alive(i) => Filed(q, i) \/ table'[q] = i
    BY <1>16, Zenon DEF FinishEntry, Filed, Writing
  <2>2. \A q \in Runner, i \in Inst : Held(q, i) /\ Alive(i) => table'[q] = i \/ Held(q, i)'
    BY <1>16, Zenon DEF FinishEntry, Held, Finishing
  <2>3. up = "up" /\ up' = "up"
    BY <1>16, Zenon DEF FinishEntry
  <2> QED BY <1>e, <2>1, <2>2, <2>3, Zenon
<1>17. ASSUME NEW r \in Runner, FinishSnapshot(r) PROVE Goal
  <2>1. \A q \in Runner, i \in Inst : Filed(q, i)' /\ Alive(i) => Filed(q, i) \/ table'[q] = i
    BY <1>17, Zenon DEF FinishSnapshot, Filed, Writing
  <2>2. \A q \in Runner, i \in Inst : Held(q, i) /\ Alive(i) => table'[q] = i \/ Held(q, i)'
    BY <1>17, Zenon DEF FinishSnapshot, Held, Finishing
  <2>3. up = "up" /\ up' = "up"
    BY <1>17, Zenon DEF FinishSnapshot
  <2> QED BY <1>e, <2>1, <2>2, <2>3, Zenon
<1>18. ASSUME NEW r \in Runner, FinalSnapshot(r) PROVE Goal
  <2>1. \A q \in Runner, i \in Inst : Filed(q, i)' /\ Alive(i) => Filed(q, i) \/ table'[q] = i
    BY <1>18, Zenon DEF FinalSnapshot, Snapshotting, Filed, Writing
  <2>2. \A q \in Runner, i \in Inst : Held(q, i) /\ Alive(i) => table'[q] = i \/ Held(q, i)'
    BY <1>18, Zenon DEF FinalSnapshot, Snapshotting, Held, Finishing
  <2>3. up = "up" /\ up' = "up"
    BY <1>18, Zenon DEF FinalSnapshot
  <2> QED BY <1>e, <2>1, <2>2, <2>3, Zenon
<1>19. ASSUME NEW r \in Runner, FinalWrite(r) PROVE Goal
  <2>0. disk' = copy[r] /\ UNCHANGED <<snapDisk, table>> /\ pc[r] = "finalWrite" /\ pc'[r] = "idle"
    BY <1>19, Zenon DEF FinalWrite, Written, WriteFails
  <2>1. \A q \in Runner : pc'[q] \notin Writing
    <3>1. \A q \in Runner : pc[q] \in Writing => guard = q
      BY <1>a, Zenon DEF GuardHeld
    <3> QED BY <1>19, <2>0, <3>1, Zenon DEF FinalWrite, Writing
  <2>2. \A q \in Runner, i \in Inst : Filed(q, i)' => q # r
    <3>1. disk'[r] = None /\ snapDisk'[r] = None
      BY <1>a, <2>0, Zenon DEF StopAndAdopt
    <3> QED BY <1>a, <2>1, <3>1, Zenon DEF Filed
  <2>3. \A q \in Runner, i \in Inst : Filed(q, i)' => Filed(q, i)
    BY <2>0, <2>1, Zenon DEF Filed, Writing
  <2>4. \A q \in Runner, i \in Inst : q # r /\ Held(q, i) => Held(q, i)'
    BY <1>19, Zenon DEF FinalWrite, Held
  <2>5. up = "up" /\ up' = "up"
    BY <1>19, Zenon DEF FinalWrite
  <2>6. \A q \in Runner, i \in Inst : Filed(q, i)' /\ Held(q, i) => Held(q, i)'
    BY <2>2, <2>4, Zenon
  <2> QED BY <1>e, <2>3, <2>5, <2>6, Zenon
<1>20. ASSUME NEW r \in Runner, AdoptClassify(r) PROVE Goal
  <2>1. \A i \in Inst : r \in adopting'
    BY <1>20, Zenon DEF AdoptClassify
  <2>2. /\ up = "adopt" /\ up' = "adopt" /\ UNCHANGED <<table, disk>>
        /\ \A q \in Runner : q # r => snapDisk'[q] = snapDisk[q] /\ (q \in adopting' <=> q \in adopting)
        /\ snapDisk'[r] \in {None, snapDisk[r]}
    BY <1>a, <1>20, Zenon DEF AdoptClassify, ThreadLocals
  <2>3. \A q \in Runner : pc'[q] \notin Writing
    BY <1>a, <1>20, <2>2, Zenon DEF AdoptClassify, ThreadLocals, Writing
  <2>4. \A q \in Runner, i \in Inst : Filed(q, i)' => i \in {disk[q], snapDisk'[q]} /\ Filed(q, i)
    BY <1>a, <2>2, <2>3, Zenon DEF Filed
  <2>5. \A q \in Runner, i \in Inst : Filed(q, i)' /\ Alive(i) =>
            /\ table[q] \in {None, i}
            /\ i = disk[q] => table[q] = i
            /\ i = snapDisk'[q] /\ q \notin adopting' => table[q] = i
    <3>1. \A i \in Inst : i = snapDisk'[r] => i = snapDisk[r]
      BY <1>a, <2>2, Zenon
    <3>2. \A q \in Runner, i \in Inst :
            q = r /\ Alive(i) /\ Filed(q, i) /\ i = snapDisk'[q] /\ q \notin adopting' => table[q] = i
      BY <1>f, <2>1, <2>2, <3>1, Zenon
    <3>3. \A q \in Runner, i \in Inst :
            q # r /\ Alive(i) /\ Filed(q, i) /\ i = snapDisk'[q] /\ q \notin adopting' => table[q] = i
      BY <1>f, <2>2, Zenon
    <3> QED BY <1>f, <2>2, <2>4, <3>2, <3>3, Zenon
  <2> QED BY <1>c, <2>2, <2>5, Zenon DEF OneAlive
<1>21. ASSUME NEW r \in Runner, AdoptMissing(r) PROVE Goal
  <2>1. \A i \in Inst : i = snapDisk[r] => ~Alive(i)
    BY <1>21, Zenon DEF AdoptMissing, Alive, Exists
  <2>2. /\ up = "adopt" /\ up' = "adopt" /\ UNCHANGED <<table, disk>>
        /\ \A q \in Runner : q # r => snapDisk'[q] = snapDisk[q] /\ (q \in adopting' <=> q \in adopting)
        /\ snapDisk'[r] \in {None, snapDisk[r]}
    BY <1>a, <1>21, Zenon DEF AdoptMissing, ThreadLocals
  <2>3. \A q \in Runner : pc'[q] \notin Writing
    BY <1>a, <1>21, <2>2, Zenon DEF AdoptMissing, ThreadLocals, Writing
  <2>4. \A q \in Runner, i \in Inst : Filed(q, i)' => i \in {disk[q], snapDisk'[q]} /\ Filed(q, i)
    BY <1>a, <2>2, <2>3, Zenon DEF Filed
  <2>5. \A q \in Runner, i \in Inst : Filed(q, i)' /\ Alive(i) =>
            /\ table[q] \in {None, i}
            /\ i = disk[q] => table[q] = i
            /\ i = snapDisk'[q] /\ q \notin adopting' => table[q] = i
    <3>1. \A i \in Inst : i = snapDisk'[r] => i = snapDisk[r]
      BY <1>a, <2>2, Zenon
    <3>2. \A q \in Runner, i \in Inst :
            q = r /\ Alive(i) /\ Filed(q, i) /\ i = snapDisk'[q] /\ q \notin adopting' => table[q] = i
      BY <1>f, <2>1, <2>2, <3>1, Zenon
    <3>3. \A q \in Runner, i \in Inst :
            q # r /\ Alive(i) /\ Filed(q, i) /\ i = snapDisk'[q] /\ q \notin adopting' => table[q] = i
      BY <1>f, <2>2, Zenon
    <3> QED BY <1>f, <2>2, <2>4, <3>2, <3>3, Zenon
  <2> QED BY <1>c, <2>2, <2>5, Zenon DEF OneAlive
<1>22. ASSUME NEW r \in Runner, AdoptQuarantine(r) PROVE Goal
  <2>1. \A i \in Inst : i = snapDisk[r] => ~Alive(i)
    BY <1>22, Zenon DEF AdoptQuarantine, Alive
  <2>2. /\ up = "adopt" /\ up' = "adopt" /\ UNCHANGED <<table, disk>>
        /\ \A q \in Runner : q # r => snapDisk'[q] = snapDisk[q] /\ (q \in adopting' <=> q \in adopting)
        /\ snapDisk'[r] \in {None, snapDisk[r]}
    BY <1>a, <1>22, Zenon DEF AdoptQuarantine, ThreadLocals
  <2>3. \A q \in Runner : pc'[q] \notin Writing
    BY <1>a, <1>22, <2>2, Zenon DEF AdoptQuarantine, ThreadLocals, Writing
  <2>4. \A q \in Runner, i \in Inst : Filed(q, i)' => i \in {disk[q], snapDisk'[q]} /\ Filed(q, i)
    BY <1>a, <2>2, <2>3, Zenon DEF Filed
  <2>5. \A q \in Runner, i \in Inst : Filed(q, i)' /\ Alive(i) =>
            /\ table[q] \in {None, i}
            /\ i = disk[q] => table[q] = i
            /\ i = snapDisk'[q] /\ q \notin adopting' => table[q] = i
    <3>1. \A i \in Inst : i = snapDisk'[r] => i = snapDisk[r]
      BY <1>a, <2>2, Zenon
    <3>2. \A q \in Runner, i \in Inst :
            q = r /\ Alive(i) /\ Filed(q, i) /\ i = snapDisk'[q] /\ q \notin adopting' => table[q] = i
      BY <1>f, <2>1, <2>2, <3>1, Zenon
    <3>3. \A q \in Runner, i \in Inst :
            q # r /\ Alive(i) /\ Filed(q, i) /\ i = snapDisk'[q] /\ q \notin adopting' => table[q] = i
      BY <1>f, <2>2, Zenon
    <3> QED BY <1>f, <2>2, <2>4, <3>2, <3>3, Zenon
  <2> QED BY <1>c, <2>2, <2>5, Zenon DEF OneAlive
<1>23. ASSUME NEW r \in Runner, AdoptOpen(r) PROVE Goal
  <2>1. \A i \in Inst : r \in adopting'
    BY <1>a, <1>23, Zenon DEF AdoptOpen, ThreadLocals
  <2>2. /\ up = "adopt" /\ up' = "adopt" /\ UNCHANGED <<table, disk>>
        /\ \A q \in Runner : q # r => snapDisk'[q] = snapDisk[q] /\ (q \in adopting' <=> q \in adopting)
        /\ snapDisk'[r] \in {None, snapDisk[r]}
    BY <1>a, <1>23, Zenon DEF AdoptOpen, ThreadLocals
  <2>3. \A q \in Runner : pc'[q] \notin Writing
    BY <1>a, <1>23, <2>2, Zenon DEF AdoptOpen, ThreadLocals, Writing
  <2>4. \A q \in Runner, i \in Inst : Filed(q, i)' => i \in {disk[q], snapDisk'[q]} /\ Filed(q, i)
    BY <1>a, <2>2, <2>3, Zenon DEF Filed
  <2>5. \A q \in Runner, i \in Inst : Filed(q, i)' /\ Alive(i) =>
            /\ table[q] \in {None, i}
            /\ i = disk[q] => table[q] = i
            /\ i = snapDisk'[q] /\ q \notin adopting' => table[q] = i
    <3>1. \A i \in Inst : i = snapDisk'[r] => i = snapDisk[r]
      BY <1>a, <2>2, Zenon
    <3>2. \A q \in Runner, i \in Inst :
            q = r /\ Alive(i) /\ Filed(q, i) /\ i = snapDisk'[q] /\ q \notin adopting' => table[q] = i
      BY <1>f, <2>1, <2>2, <3>1, Zenon
    <3>3. \A q \in Runner, i \in Inst :
            q # r /\ Alive(i) /\ Filed(q, i) /\ i = snapDisk'[q] /\ q \notin adopting' => table[q] = i
      BY <1>f, <2>2, Zenon
    <3> QED BY <1>f, <2>2, <2>4, <3>2, <3>3, Zenon
  <2> QED BY <1>c, <2>2, <2>5, Zenon DEF OneAlive
<1>24. ASSUME NEW r \in Runner, AdoptRunner(r) PROVE Goal
  <2>0. /\ registry'[r] = snapDisk[r] /\ r \in adopting /\ up = "adopt"
    BY <1>24, AdoptedIsSnapshot, Zenon DEF TableInv
  <2>1. /\ up' = "adopt" /\ UNCHANGED <<disk, snapDisk>> /\ adopting' = adopting \ {r}
        /\ table' = IF table[r] = None THEN [table EXCEPT ![r] = snapDisk[r]] ELSE table
    BY <1>a, <2>0, <1>24, Zenon DEF AdoptRunner
  <2>2. \A q \in Runner : pc'[q] \notin Writing
    BY <1>a, <1>24, <2>0, Zenon DEF AdoptRunner, ThreadLocals, Writing
  <2>3. \A q \in Runner, i \in Inst : Filed(q, i)' => i \in {disk[q], snapDisk[q]} /\ Filed(q, i)
    BY <2>1, <2>2, Zenon DEF Filed
  <2>4. \A q \in Runner \ {r} : table'[q] = table[q]
    BY <1>b, <2>1, Zenon
  <2>5. \A i \in Inst : Filed(r, i)' /\ Alive(i) => table'[r] = i
    BY <1>b, <2>0, <2>1, <2>3, Zenon DEF SupervisedInv, OneAlive
  <2>6. \A q \in Runner \ {r}, i \in Inst : Filed(q, i)' /\ Alive(i) =>
            /\ table'[q] \in {None, i}
            /\ i = disk[q] => table'[q] = i
            /\ i = snapDisk[q] /\ q \notin adopting => table'[q] = i
    BY <2>0, <2>3, <2>4, Zenon DEF SupervisedInv, OneAlive
  <2> QED BY <1>c, <2>1, <2>5, <2>6, Zenon DEF OneAlive
<1>25. ASSUME NEW r \in Runner, AdoptLeft(r) PROVE Goal
  <2>1. \A i \in Inst : i = snapDisk[r] => ~Alive(i)
    <3>1. CASE pc[r] = "adoptVerify"
      <4>1. sid = r /\ OpenRaced /\ want = snapDisk[r]
        BY <1>a, <1>25, <3>1, Zenon DEF AdoptLeft, OpenFails, RpcFails, StopAndAdopt, ThreadLocals
      <4> QED BY <4>1, Zenon DEF OpenRaced, StartTimeMatches, Alive, Exists
    <3>2. CASE pc[r] = "adoptOpen"
      BY <1>a, <1>25, <3>2, Zenon DEF AdoptLeft, RpcFails, Alive, Exists
    <3> QED BY <1>25, <3>1, <3>2, Zenon DEF AdoptLeft
  <2>2. /\ up = "adopt" /\ up' = "adopt" /\ UNCHANGED <<table, disk>>
        /\ \A q \in Runner : q # r => snapDisk'[q] = snapDisk[q] /\ (q \in adopting' <=> q \in adopting)
        /\ snapDisk'[r] \in {None, snapDisk[r]}
    BY <1>a, <1>25, Zenon DEF AdoptLeft, ThreadLocals
  <2>3. \A q \in Runner : pc'[q] \notin Writing
    BY <1>a, <1>25, <2>2, Zenon DEF AdoptLeft, ThreadLocals, Writing
  <2>4. \A q \in Runner, i \in Inst : Filed(q, i)' => i \in {disk[q], snapDisk'[q]} /\ Filed(q, i)
    BY <1>a, <2>2, <2>3, Zenon DEF Filed
  <2>5. \A q \in Runner, i \in Inst : Filed(q, i)' /\ Alive(i) =>
            /\ table[q] \in {None, i}
            /\ i = disk[q] => table[q] = i
            /\ i = snapDisk'[q] /\ q \notin adopting' => table[q] = i
    <3>1. \A i \in Inst : i = snapDisk'[r] => i = snapDisk[r]
      BY <1>a, <2>2, Zenon
    <3>2. \A q \in Runner, i \in Inst :
            q = r /\ Alive(i) /\ Filed(q, i) /\ i = snapDisk'[q] /\ q \notin adopting' => table[q] = i
      BY <1>f, <2>1, <2>2, <3>1, Zenon
    <3>3. \A q \in Runner, i \in Inst :
            q # r /\ Alive(i) /\ Filed(q, i) /\ i = snapDisk'[q] /\ q \notin adopting' => table[q] = i
      BY <1>f, <2>2, Zenon
    <3> QED BY <1>f, <2>2, <2>4, <3>2, <3>3, Zenon
  <2> QED BY <1>c, <2>2, <2>5, Zenon DEF OneAlive
<1>26. CASE Crash
  <2>1. up' = "down" /\ UNCHANGED <<disk, snapDisk>> /\ \A q \in Runner : pc'[q] \notin Writing
    BY <1>26, Zenon DEF Crash, Writing
  <2>2. \A q \in Runner, i \in Inst : Filed(q, i)' => i \in {disk[q], snapDisk[q]} /\ Filed(q, i)
    BY <2>1, Zenon DEF Filed
  <2>3. ASSUME NEW q \in Runner, NEW i \in Inst, NEW j \in Inst,
               Filed(q, i)', Alive(i), Filed(q, j)', Alive(j)
        PROVE  i = j
    <3>1. CASE up = "up"
      BY <2>2, <2>3, <3>1, Zenon DEF SupervisedInv, OneAlive, Held
    <3>2. CASE up = "adopt"
      <4>1. table[q] \in {None, i} /\ table[q] \in {None, j}
        BY <1>f, <2>2, <2>3, <3>2, Zenon
      <4>2. CASE table[q] = None
        <5>1. i # disk[q] /\ j # disk[q]
          BY <1>a, <1>f, <2>2, <2>3, <3>2, <4>2, Zenon
        <5>2. i \in {disk[q], snapDisk[q]} /\ j \in {disk[q], snapDisk[q]}
          BY <2>2, <2>3, Zenon
        <5> QED BY <5>1, <5>2, Zenon
      <4> QED BY <4>1, <4>2, Zenon
    <3> QED BY <1>26, <1>b, <3>1, <3>2, Zenon DEF Crash
  <2> QED BY <1>c, <2>1, <2>3, Zenon DEF OneAlive
<1>27. CASE Restore
  <2>0. PICK reopened \in SUBSET {q \in Runner : Reopens(disk[q])} :
        table' = [q \in Runner |-> IF q \in reopened
                                  THEN [pid |-> disk[q].pid, start |-> start[disk[q].pid]]
                                  ELSE None]
    BY <1>27, Zenon DEF Restore
  <2>1. \A q \in Runner : Reopens(disk[q]) =>
            [pid |-> disk[q].pid, start |-> start[disk[q].pid]] = disk[q] /\ Alive(disk[q]) /\ disk[q] \in Inst
    BY <1>b DEF Reopens, Inst, Alive, Exists, Entry
  <2>2. \A q \in Runner : table'[q] = None \/ (table'[q] = disk[q] /\ Alive(disk[q]) /\ disk[q] \in Inst)
    BY <2>0, <2>1, Zenon
  <2>3. up = "down" /\ up' = "adopt" /\ disk' = table' /\ UNCHANGED <<snapDisk, pc>>
        /\ adopting' = {q \in Runner : snapDisk[q] # None}
    BY <1>27, Zenon DEF Restore
  <2>4. \A q \in Runner : pc[q] \notin Writing
    BY <1>a, <2>3, Zenon DEF ThreadLocals, Writing
  <2>5. \A q \in Runner, i \in Inst : Filed(q, i)' => i \in {disk'[q], snapDisk[q]}
    BY <2>3, <2>4, Zenon DEF Filed
  <2>6. \A q \in Runner, i \in Inst : i \in {disk[q], snapDisk[q]} => Filed(q, i)
    BY Zenon DEF Filed
  <2>7. \A q \in Runner, i \in Inst : i = snapDisk[q] /\ Alive(i) => table'[q] \in {None, i} /\ q \in adopting'
    <3>1. \A q \in Runner, i \in Inst : i = snapDisk[q] => q \in adopting'
      BY <1>a, <2>3, Zenon
    <3>2. \A q \in Runner, i, j \in Inst : Filed(q, i) /\ Alive(i) /\ Filed(q, j) /\ Alive(j) => j = i
      BY <2>3, Zenon DEF SupervisedInv, OneAlive
    <3> QED BY <2>2, <2>6, <3>1, <3>2, Zenon
  <2> QED BY <1>c, <2>2, <2>3, <2>5, <2>7, Zenon DEF OneAlive
<1>28. CASE AdoptDone
  <2>1. up = "adopt" /\ up' = "up" /\ adopting = {} /\ disk' = table /\ UNCHANGED <<table, snapDisk, pc>>
    BY <1>28, Zenon DEF AdoptDone
  <2>2. \A q \in Runner : pc[q] \notin Writing
    BY <1>a, <2>1, Zenon DEF ThreadLocals, Writing
  <2>3. \A q \in Runner, i \in Inst : Filed(q, i)' => i \in {table[q], snapDisk[q]}
    BY <2>1, <2>2, Zenon DEF Filed
  <2>4. \A q \in Runner, i \in Inst : i = snapDisk[q] => Filed(q, i)
    BY Zenon DEF Filed
  <2>5. \A q \in Runner, i \in Inst : Filed(q, i)' /\ Alive(i) => table[q] = i
    BY <2>1, <2>3, <2>4, Zenon DEF SupervisedInv, OneAlive
  <2> QED BY <1>c, <1>d, <2>1, <2>5, Zenon DEF OneAlive
<1>29. CASE AdoptAborted
  BY <1>29, Zenon DEF AdoptAborted
<1>30. CASE BrokerAlone
  <2>1. UNCHANGED daemonVars
    BY <1>30, Zenon DEF BrokerAlone, Unheard
  <2>2. \A q \in Runner, i \in Inst : (Filed(q, i)' <=> Filed(q, i)) /\ (Held(q, i)' <=> Held(q, i))
    BY <2>1, Zenon DEF daemonVars, Filed, Held
  <2> QED BY <1>c, <2>1, <2>2, Zenon DEF daemonVars, SupervisedInv, OneAlive
<1> QED
  BY <1>1, <1>2, <1>3, <1>4, <1>5, <1>6, <1>7, <1>8, <1>9, <1>10, <1>11, <1>12, <1>13,
     <1>14, <1>15, <1>16, <1>17, <1>18, <1>19, <1>20, <1>21, <1>22, <1>23, <1>24, <1>25,
     <1>26, <1>27, <1>28, <1>29, <1>30, NextCases, Zenon DEF LoudAction, Adoption

LEMMA SupervisedInit == Init => SupervisedInv
<1> SUFFICES ASSUME Init PROVE SupervisedInv
  BY Zenon
<1>1. /\ \A r \in Runner : pc[r] = "idle" /\ disk[r] = None /\ snapDisk[r] = None
      /\ None \notin Inst
  BY NoneAssumption, Zenon DEF Init, Empty
<1>2. \A r \in Runner, i \in Inst : ~Filed(r, i)
  BY <1>1, Zenon DEF Filed, Writing
<1> QED BY <1>1, <1>2, Zenon DEF SupervisedInv, OneAlive, StopAndAdopt

\* A broker that has not restarted has not restarted before.
LEMMA AnsweringBefore ==
    ASSUME RecordsInv, [Next]_vars, Answering'
    PROVE  Answering
<1>1. BrokerInv /\ [BrokerNext]_brokerVars
  <2>1. CASE Next
    BY <2>1, ContractStep, Zenon DEF RecordsInv
  <2> QED BY <2>1, Zenon DEF RecordsInv, vars
<1>2. restarts' = restarts \/ restarts' = restarts + 1
  <2>1. CASE UNCHANGED brokerVars
    BY <2>1, Zenon DEF brokerVars
  <2>2. CASE BrokerNext
    BY <2>2, Zenon DEF BrokerNext, BrokerInternal, ReaperStep, SpawnStep, Exit, HostFork, ReaperWake, ReaperPick,
       ReaperWaitid, ReaperRemove, ReaperPush, ReaperDone, SpawnReserve, SpawnClone, SpawnAborted,
       SpawnRegister, SpawnTargetedReap, SpawnRegisterFailed, TargetedReap, SpawnDone, OpenPidfd, OpenVerified,
       OpenRaced, Deregister, PollChildReaped, BrokerRestart
  <2> QED BY <1>1, <2>1, <2>2, Zenon
<1>3. restarts \in Nat
  BY <1>1 DEF BrokerInv, BrokerTypeOK
<1>4. restarts' = 0 => restarts = 0
  BY <1>2, <1>3
<1> QED BY <1>4, Zenon DEF Answering

\* Startup recovery is complete: wherever the daemon crashed, in an operation or
\* in an earlier recovery, once it is up again it supervises every live process
\* that has a snapshot and no operation under way, if files can be written, the
\* broker answers and has not restarted, and all that register take the guard.
THEOREM SnapshotsSupervised == Safety => []SnapshotsAreSupervised
<1> DEFINE I == TableInv /\ Persisted /\ (Answering => SupervisedInv)
<1>1. Init => I
  BY TableInit, SupervisedInit, Zenon
<1>2. I /\ [Next]_vars => I'
  <2> SUFFICES ASSUME I, [Next]_vars PROVE I'
    BY Zenon
  <2>1. TableInv' /\ (Answering' => Answering)
    BY TableStep, AnsweringBefore, Zenon DEF TableInv
  <2>2. CASE Next
    BY <2>1, <2>2, PersistStep, StopAdoptStep, OneAliveStep, Zenon DEF SupervisedInv
  <2>3. CASE UNCHANGED vars
    <3>1. UNCHANGED daemonVars /\ UNCHANGED <<spc, sid>> /\ \A i \in Inst : Alive(i)' = Alive(i)
      BY <2>3, DaemonStutters, Zenon DEF vars
    <3>2. Persisted'
      BY <3>1, Zenon DEF daemonVars, lifeVars, fileVars, Persisted
    <3>3. \A r \in Runner, i \in Inst : (Filed(r, i)' <=> Filed(r, i)) /\ (Held(r, i)' <=> Held(r, i))
      BY <3>1, Zenon DEF daemonVars, fileVars, Filed, Held
    <3>4. OneAlive => OneAlive'
      BY <3>1, <3>3, Zenon DEF daemonVars, lifeVars, fileVars, OneAlive
    <3>5. StopAndAdopt => StopAndAdopt'
      BY <3>1, Zenon DEF daemonVars, lifeVars, fileVars, StopAndAdopt
    <3> QED BY <2>1, <3>2, <3>4, <3>5, Zenon DEF SupervisedInv
  <2> QED BY <2>2, <2>3, Zenon
<1>3. I => SnapshotsAreSupervised
  <2> SUFFICES ASSUME I, Answering, NEW r \in Runner, up = "up", pc[r] = "idle",
                      snapDisk[r] # None, Alive(snapDisk[r])
               PROVE  table[r] = snapDisk[r]
    BY Zenon DEF SnapshotsAreSupervised, Answering
  <2>1. snapDisk[r] \in Inst
    BY Zenon DEF TableInv, RecordsInv, SupervisionTypeOK, Table
  <2>2. Filed(r, snapDisk[r])
    BY Zenon DEF Filed
  <2> QED BY <2>1, <2>2, Zenon DEF SupervisedInv, OneAlive, Held, Finishing
<1> QED BY <1>1, <1>2, <1>3, PTL DEF Safety
=============================================================================
