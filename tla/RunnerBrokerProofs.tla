------------------------- MODULE RunnerBrokerProofs -------------------------
(***************************************************************************)
(* Proofs about RunnerBroker for any number of runners, pids, restarts and *)
(* faults and any capacity of the reap buffer.                             *)
(***************************************************************************)
EXTENDS RunnerBroker, TLAPS

\* Start times come from the clock, and a process has one.
Clock ==
    \A p \in Pid : start[p] <= ticks /\ (st[p] # "none" => start[p] >= 1)

\* What the locals of the reaper and of the accept loop stand for.  The last
\* conjunct is why the start-time check suffices: a process that has the expected
\* start time when it is checked already had the pid when the pidfd was opened.
ReaperLocals ==
    rpc \in {"waitid", "reaped", "stale", "push"} => rid \in Runner /\ rinst \in Inst

LoopLocals ==
    /\ spc # "accept" => sid \in Runner
    /\ spc \in {"register", "targeted", "reply"} => sinst \in Inst /\ Recorded(sid, sinst)
    /\ spc = "verify" =>
        /\ want \in Inst /\ sinst \in Inst
        /\ Recorded(sid, want)
        /\ Exists(want) => sinst = want

Locals == ReaperLocals /\ LoopLocals

\* The inductive invariant.
BrokerInv ==
    /\ BrokerTypeOK
    /\ Clock
    /\ Locals
    /\ RegistryIsOwn
    /\ SpawnNeverOverwrites
    /\ NoLostReap

\* What every step does to the process table: a process that exists afterwards
\* and is not new existed before, for the same runner.
ProcStep ==
    /\ ticks' >= ticks
    /\ \A p \in Pid :
        (st'[p] # "none" /\ start'[p] <= ticks) =>
            st[p] # "none" /\ start'[p] = start[p] /\ owner'[p] = owner[p]
-----------------------------------------------------------------------------
\* Freeing pids is a ProcStep and keeps the types and the clock.
LEMMA FreeStep ==
    ASSUME BrokerTypeOK, Clock, NEW ps \in SUBSET Pid, Free(ps), UNCHANGED ticks
    PROVE  /\ ProcStep /\ Clock'
           /\ st' \in [Pid -> {"none", "running", "zombie"}]
           /\ start' \in [Pid -> 0..MaxTicks]
           /\ owner' \in [Pid -> Runner \union {None}]
BY BoundsAssumption DEF BrokerTypeOK, Clock, Free, ProcStep

\* So is forking a process.
LEMMA ForkStep ==
    ASSUME BrokerTypeOK, Clock, NEW p \in Pid, NEW o \in Runner \union {None}, NEW c \in BOOLEAN,
           Fork(p, o, c)
    PROVE  /\ ProcStep /\ Clock'
           /\ st' \in [Pid -> {"none", "running", "zombie"}]
           /\ start' \in [Pid -> 0..MaxTicks]
           /\ owner' \in [Pid -> Runner \union {None}]
           /\ child' \in [Pid -> BOOLEAN]
           /\ ticks' \in 0..MaxTicks
BY BoundsAssumption DEF BrokerTypeOK, Clock, Fork, ProcStep

\* A process recorded for a runner stays recorded for it: its pid can only be
\* taken by a process with a later start time.
LEMMA RecordedStable ==
    ASSUME BrokerTypeOK, Clock, ProcStep, ticks' \in 0..MaxTicks, NEW r \in Runner, NEW i \in Inst, Recorded(r, i)
    PROVE  Recorded(r, i)'
BY BoundsAssumption, NoneAssumption DEF BrokerTypeOK, Clock, ProcStep, Recorded, Exists, Inst

\* The notification buffer keeps its capacity.
LEMMA PushedType ==
    ASSUME BrokerTypeOK, NEW n \in [id : Runner, pid : Pid]
    PROVE  Pushed(n) \in Seq([id : Runner, pid : Pid]) /\ Len(Pushed(n)) <= ReapCap
<1> DEFINE N == [id : Runner, pid : Pid]
           b == IF Len(buffer) >= ReapCap THEN Tail(buffer) ELSE buffer
<1>1. buffer \in Seq(N) /\ Len(buffer) <= ReapCap /\ Len(buffer) \in Nat
  BY DEF BrokerTypeOK
<1>2. b \in Seq(N) /\ Len(b) \in Nat /\ Len(b) <= ReapCap - 1
  <2>1. CASE Len(buffer) >= ReapCap
    <3>1. buffer # <<>>
      BY <1>1, <2>1, BoundsAssumption
    <3>2. Tail(buffer) \in Seq(N) /\ Len(Tail(buffer)) = Len(buffer) - 1
      BY <1>1, <3>1
    <3> QED BY <1>1, <2>1, <3>2, BoundsAssumption
  <2>2. CASE ~(Len(buffer) >= ReapCap)
    BY <1>1, <2>2, BoundsAssumption
  <2> QED BY <2>1, <2>2, Zenon
<1>3. Append(b, n) \in Seq(N) /\ Len(Append(b, n)) = Len(b) + 1
  BY <1>2
<1> QED BY <1>2, <1>3, BoundsAssumption DEF Pushed
-----------------------------------------------------------------------------
\* The targeted reap of a process in hand keeps them too.
LEMMA TargetedReapStep ==
    ASSUME BrokerTypeOK, Clock, sid \in Runner, sinst \in Inst,
           NEW next \in {"reply", "failed"}, TargetedReap(next)
    PROVE  BrokerTypeOK' /\ Clock' /\ ProcStep
<1> DEFINE n == [id |-> sid, pid |-> sinst.pid]
<1>1. n \in [id : Runner, pid : Pid] /\ {sinst.pid} \in SUBSET Pid
  BY Zenon DEF Inst
<1>2. Pushed(n) \in Seq([id : Runner, pid : Pid]) /\ Len(Pushed(n)) <= ReapCap
  BY <1>1, PushedType, Zenon
<1>3. CASE Reapable(sinst)
  <2>1. Free({sinst.pid}) /\ UNCHANGED ticks
    BY <1>3, Zenon DEF TargetedReap
  <2>2. ProcStep /\ Clock' /\ st' \in [Pid -> {"none", "running", "zombie"}]
        /\ start' \in [Pid -> 0..MaxTicks] /\ owner' \in [Pid -> Runner \union {None}]
    BY <1>1, <2>1, FreeStep, Zenon
  <2> QED BY <1>2, <1>3, <2>2, Zenon DEF BrokerTypeOK, TargetedReap, Unregister, reaperVars
<1>4. CASE ~Reapable(sinst)
  BY <1>4 DEF BrokerTypeOK, Clock, ProcStep, TargetedReap, Unregister, reaperVars
<1> QED BY <1>3, <1>4, Zenon

\* Every step is a ProcStep and keeps the types and the clock.
LEMMA TypeStep ==
    ASSUME BrokerTypeOK, Clock, Locals, BrokerNext
    PROVE  BrokerTypeOK' /\ Clock' /\ ProcStep
<1>1. CASE \E p \in Pid : Exit(p)
  <2> PICK p \in Pid : Exit(p)
    BY <1>1, Zenon
  <2>1. CASE child[p]
    <3>1. sigchld' \in BOOLEAN
      BY <2>1, Zenon DEF Exit
    <3>2. /\ st[p] = "running" /\ st' = [st EXCEPT ![p] = "zombie"]
          /\ UNCHANGED <<start, owner, child, ticks, registry, late, buffer, rpc, todo, rid, rinst,
                        spc, sid, sinst, want, restarts>>
      BY <2>1, Zenon DEF Exit, reaperVars, loopVars
    <3> QED BY <3>1, <3>2 DEF BrokerTypeOK, Clock, ProcStep
  <2>2. CASE ~child[p]
    <3>1. Free({p}) /\ UNCHANGED ticks
      BY <2>2, Zenon DEF Exit
    <3>2. ProcStep /\ Clock' /\ st' \in [Pid -> {"none", "running", "zombie"}]
          /\ start' \in [Pid -> 0..MaxTicks] /\ owner' \in [Pid -> Runner \union {None}]
      BY <3>1, FreeStep, Zenon
    <3> QED BY <2>2, <3>2 DEF BrokerTypeOK, Exit, reaperVars, loopVars
  <2> QED BY <2>1, <2>2, Zenon
<1>2. CASE \E p \in Pid : HostFork(p)
  <2> PICK p \in Pid : HostFork(p)
    BY <1>2, Zenon
  <2>1. Fork(p, None, FALSE)
    BY Zenon DEF HostFork
  <2>2. /\ ProcStep /\ Clock' /\ st' \in [Pid -> {"none", "running", "zombie"}]
        /\ start' \in [Pid -> 0..MaxTicks] /\ owner' \in [Pid -> Runner \union {None}]
        /\ child' \in [Pid -> BOOLEAN] /\ ticks' \in 0..MaxTicks
    BY <2>1, ForkStep, Zenon
  <2> QED BY <2>2 DEF BrokerTypeOK, HostFork, reaperVars, loopVars
<1>3. CASE ReaperWake
  <2>1. sigchld' \in BOOLEAN
    BY <1>3, Zenon DEF ReaperWake
  <2> QED BY <1>3, <2>1 DEF BrokerTypeOK, Clock, ProcStep, ReaperWake, procVars, loopVars
<1>4. CASE \E r \in Runner : ReaperPick(r)
  BY <1>4 DEF BrokerTypeOK, Clock, Locals, LoopLocals, ReaperLocals, ProcStep, ReaperPick, procVars, reaperVars, loopVars
<1>5. CASE ReaperWaitid
  <2>1. rinst \in Inst /\ {rinst.pid} \in SUBSET Pid
    BY <1>5, Zenon DEF ReaperWaitid, Locals, ReaperLocals, Inst
  <2>2. CASE Reapable(rinst)
    <3>1. Free({rinst.pid}) /\ UNCHANGED ticks
      BY <1>5, <2>2, Zenon DEF ReaperWaitid, StillAlive, Reapable, Alive
    <3>2. ProcStep /\ Clock' /\ st' \in [Pid -> {"none", "running", "zombie"}]
          /\ start' \in [Pid -> 0..MaxTicks] /\ owner' \in [Pid -> Runner \union {None}]
      BY <2>1, <3>1, FreeStep, Zenon
    <3> QED BY <1>5, <2>2, <3>2 DEF BrokerTypeOK, ReaperWaitid, StillAlive, Reapable, Alive, loopVars
  <2>3. CASE ~Reapable(rinst)
    BY <1>5, <2>3 DEF BrokerTypeOK, Clock, ProcStep, ReaperWaitid, NextId, loopVars
  <2> QED BY <2>2, <2>3, Zenon
<1>6. CASE ReaperRemove
  BY <1>6 DEF BrokerTypeOK, Clock, Locals, LoopLocals, ReaperLocals, ProcStep, ReaperRemove, NextId, Unregister, procVars, reaperVars, loopVars
<1>7. CASE ReaperPush
  <2>1. [id |-> rid, pid |-> rinst.pid] \in [id : Runner, pid : Pid]
    BY <1>7, Zenon DEF ReaperPush, Locals, ReaperLocals, Inst
  <2>2. Pushed([id |-> rid, pid |-> rinst.pid]) \in Seq([id : Runner, pid : Pid])
        /\ Len(Pushed([id |-> rid, pid |-> rinst.pid])) <= ReapCap
    BY <2>1, PushedType, Zenon
  <2> QED BY <1>7, <2>2 DEF BrokerTypeOK, Clock, ProcStep, ReaperPush, NextId, procVars, loopVars
<1>8. CASE ReaperDone
  BY <1>8 DEF BrokerTypeOK, Clock, Locals, LoopLocals, ReaperLocals, ProcStep, ReaperDone, procVars, reaperVars, loopVars
<1>9. CASE \E r \in Runner : SpawnReserve(r)
  BY <1>9 DEF BrokerTypeOK, Clock, Locals, LoopLocals, ReaperLocals, ProcStep, SpawnReserve, procVars, reaperVars, loopVars
<1>10. CASE \E p \in Pid : SpawnClone(p)
  <2> PICK p \in Pid : SpawnClone(p)
    BY <1>10, Zenon
  <2>1. Fork(p, sid, TRUE) /\ sid \in Runner
    BY Zenon DEF SpawnClone, Locals, LoopLocals
  <2>2. [pid |-> p, start |-> ticks + 1] \in Inst
    BY <2>1, BoundsAssumption DEF Fork, BrokerTypeOK, Inst
  <2> QED BY <2>1, <2>2, ForkStep, Zenon DEF BrokerTypeOK, SpawnClone, reaperVars
<1>11. CASE SpawnAborted
  BY <1>11 DEF BrokerTypeOK, Clock, Locals, LoopLocals, ReaperLocals, ProcStep, SpawnAborted, procVars, reaperVars, loopVars
<1>12. CASE SpawnRegister
  BY <1>12 DEF BrokerTypeOK, Clock, Locals, LoopLocals, ReaperLocals, ProcStep, SpawnRegister, procVars, reaperVars, loopVars
<1>13. CASE SpawnTargetedReap
  BY <1>13, TargetedReapStep, Zenon DEF SpawnTargetedReap, Locals, LoopLocals
<1>14. CASE SpawnRegisterFailed
  BY <1>14, TargetedReapStep, Zenon DEF SpawnRegisterFailed, Locals, LoopLocals
<1>15. CASE SpawnDone
  BY <1>15 DEF BrokerTypeOK, Clock, Locals, LoopLocals, ReaperLocals, ProcStep, SpawnDone, Accept, procVars, reaperVars, loopVars
<1>16. CASE \E r \in Runner, i \in Inst : Recorded(r, i) /\ OpenPidfd(r, i)
  BY <1>16 DEF BrokerTypeOK, Clock, Locals, LoopLocals, ReaperLocals, ProcStep, OpenPidfd, Inst, procVars, reaperVars, loopVars
<1>17. CASE OpenVerified
  BY <1>17 DEF BrokerTypeOK, Clock, Locals, LoopLocals, ReaperLocals, ProcStep, OpenVerified, Accept, procVars, reaperVars, loopVars
<1>18. CASE OpenRaced
  BY <1>18 DEF BrokerTypeOK, Clock, Locals, LoopLocals, ReaperLocals, ProcStep, OpenRaced, Accept, procVars, reaperVars, loopVars
<1>19. CASE \E r \in Runner : Deregister(r)
  BY <1>19 DEF BrokerTypeOK, Clock, Locals, LoopLocals, ReaperLocals, ProcStep, Deregister, Unregister, procVars, reaperVars, loopVars
<1>20. CASE PollChildReaped
  <2>1. buffer' \in Seq([id : Runner, pid : Pid]) /\ Len(buffer') <= ReapCap
    BY <1>20, BoundsAssumption DEF PollChildReaped
  <2> QED BY <1>20, <2>1 DEF BrokerTypeOK, Clock, ProcStep, PollChildReaped, procVars, reaperVars, loopVars
<1>21. CASE BrokerRestart
  <2>1. Free({p \in Pid : st[p] = "zombie"}) /\ UNCHANGED ticks
    BY <1>21, Zenon DEF BrokerRestart
  <2>2. ProcStep /\ Clock' /\ st' \in [Pid -> {"none", "running", "zombie"}]
        /\ start' \in [Pid -> 0..MaxTicks] /\ owner' \in [Pid -> Runner \union {None}]
    BY <2>1, FreeStep, Zenon
  <2>3. buffer' \in Seq([id : Runner, pid : Pid]) /\ Len(buffer') <= ReapCap
    BY <1>21, BoundsAssumption DEF BrokerRestart
  <2>4. sigchld' \in BOOLEAN
    BY <1>21, Zenon DEF BrokerRestart
  <2>5. restarts' \in 0..MaxBrokerRestarts
    BY <1>21, BoundsAssumption DEF BrokerRestart, BrokerTypeOK
  <2>6. child' \in [Pid -> BOOLEAN] /\ registry' \in [Runner -> Inst \union {None}]
    BY <1>21, Zenon DEF BrokerRestart
  <2> QED BY <1>21, <2>2, <2>3, <2>4, <2>5, <2>6, Zenon DEF BrokerTypeOK, BrokerRestart, Accept
<1> QED
  BY <1>1, <1>2, <1>3, <1>4, <1>5, <1>6, <1>7, <1>8, <1>9, <1>10, <1>11, <1>12, <1>13, <1>14, <1>15, <1>16, <1>17, <1>18, <1>19, <1>20, <1>21, Zenon
  DEF BrokerNext, BrokerInternal, ReaperStep, SpawnStep
-----------------------------------------------------------------------------
\* A record of a runner survives every step, and no step brings back a process
\* that is gone.
LEMMA RecordsStep ==
    ASSUME BrokerTypeOK, Clock, Locals, BrokerNext
    PROVE  /\ \A r \in Runner, i \in Inst : Recorded(r, i) => Recorded(r, i)'
           /\ \A i \in Inst : i.start <= ticks /\ Exists(i)' => Exists(i)
<1>1. BrokerTypeOK' /\ ProcStep
  BY TypeStep, Zenon
<1>2. ticks' \in 0..MaxTicks
  BY <1>1, Zenon DEF BrokerTypeOK
<1>3. \A r \in Runner, i \in Inst : Recorded(r, i) => Recorded(r, i)'
  BY <1>1, <1>2, RecordedStable, Zenon
<1>4. \A i \in Inst : i.start <= ticks /\ Exists(i)' => Exists(i)
  BY <1>1, Zenon DEF ProcStep, Exists, Inst
<1> QED BY <1>3, <1>4, Zenon

\* How a step moves the accept loop.
LoopStep ==
    \/ UNCHANGED loopVars
    \/ spc' = "accept"
    \/ spc' = "clone" /\ sid' \in Runner
    \/ \E p \in Pid : SpawnClone(p)
    \/ /\ spc \in {"clone", "register", "targeted"} /\ UNCHANGED <<sid, sinst>>
       /\ spc' \in {"targeted", "reply", "failed"}
       /\ spc' # "failed" => spc # "clone"
    \/ \E r \in Runner, i \in Inst : Recorded(r, i) /\ OpenPidfd(r, i)

\* Every step of the broker moves the loop in one of these ways.
LEMMA LoopSteps ==
    ASSUME BrokerNext
    PROVE  LoopStep
<1>1. CASE \E p \in Pid : Exit(p)
  BY <1>1, Zenon DEF LoopStep, loopVars, Exit
<1>2. CASE \E p \in Pid : HostFork(p)
  BY <1>2, Zenon DEF LoopStep, loopVars, HostFork
<1>3. CASE ReaperWake
  BY <1>3, Zenon DEF LoopStep, loopVars, ReaperWake
<1>4. CASE \E r \in Runner : ReaperPick(r)
  BY <1>4, Zenon DEF LoopStep, loopVars, ReaperPick
<1>5. CASE ReaperWaitid
  BY <1>5, Zenon DEF LoopStep, loopVars, ReaperWaitid
<1>6. CASE ReaperRemove
  BY <1>6, Zenon DEF LoopStep, loopVars, ReaperRemove
<1>7. CASE ReaperPush
  BY <1>7, Zenon DEF LoopStep, loopVars, ReaperPush
<1>8. CASE ReaperDone
  BY <1>8, Zenon DEF LoopStep, loopVars, ReaperDone
<1>9. CASE \E r \in Runner : SpawnReserve(r)
  BY <1>9, Zenon DEF LoopStep, loopVars, SpawnReserve
<1>10. CASE \E p \in Pid : SpawnClone(p)
  BY <1>10, Zenon DEF LoopStep, loopVars, SpawnClone
<1>11. CASE SpawnAborted
  BY <1>11, Zenon DEF LoopStep, loopVars, SpawnAborted
<1>12. CASE SpawnRegister
  BY <1>12, Zenon DEF LoopStep, loopVars, SpawnRegister
<1>13. CASE SpawnTargetedReap
  BY <1>13, Zenon DEF LoopStep, loopVars, SpawnTargetedReap, TargetedReap
<1>14. CASE SpawnRegisterFailed
  BY <1>14, Zenon DEF LoopStep, loopVars, SpawnRegisterFailed, TargetedReap
<1>15. CASE SpawnDone
  BY <1>15, Zenon DEF LoopStep, loopVars, SpawnDone, Accept
<1>16. CASE \E r \in Runner, i \in Inst : Recorded(r, i) /\ OpenPidfd(r, i)
  BY <1>16, Zenon DEF LoopStep, loopVars, OpenPidfd
<1>17. CASE OpenVerified
  BY <1>17, Zenon DEF LoopStep, loopVars, OpenVerified, Accept
<1>18. CASE OpenRaced
  BY <1>18, Zenon DEF LoopStep, loopVars, OpenRaced, Accept
<1>19. CASE \E r \in Runner : Deregister(r)
  BY <1>19, Zenon DEF LoopStep, loopVars, Deregister
<1>20. CASE PollChildReaped
  BY <1>20, Zenon DEF LoopStep, loopVars, PollChildReaped
<1>21. CASE BrokerRestart
  BY <1>21, Zenon DEF LoopStep, loopVars, BrokerRestart, Accept
<1> QED
  BY <1>1, <1>2, <1>3, <1>4, <1>5, <1>6, <1>7, <1>8, <1>9, <1>10, <1>11, <1>12, <1>13, <1>14, <1>15, <1>16, <1>17, <1>18, <1>19, <1>20, <1>21, Zenon
  DEF BrokerNext, BrokerInternal, ReaperStep, SpawnStep

\* What a step does to the registry: an entry stays, goes, or is the process
\* SpawnRunner created or OpenPidfd opened and verified.
RegistryChange ==
    \A r \in Runner :
        \/ registry'[r] = registry[r]
        \/ registry'[r] = None
        \/ registry'[r] = sinst /\ r = sid /\ spc = "register" /\ spc' = "targeted"
        \/ registry'[r] = sinst /\ r = sid /\ spc = "verify" /\ StartTimeMatches

\* Every step of the broker changes the registry in one of these ways.
LEMMA RegistryChanges ==
    ASSUME BrokerTypeOK, BrokerNext
    PROVE  RegistryChange
<1> USE DEF BrokerTypeOK, RegistryChange
<1>1. CASE \E p \in Pid : Exit(p)
  BY <1>1, Zenon DEF Exit
<1>2. CASE \E p \in Pid : HostFork(p)
  BY <1>2, Zenon DEF HostFork
<1>3. CASE ReaperWake
  BY <1>3, Zenon DEF ReaperWake
<1>4. CASE \E r \in Runner : ReaperPick(r)
  BY <1>4, Zenon DEF ReaperPick
<1>5. CASE ReaperWaitid
  BY <1>5, Zenon DEF ReaperWaitid
<1>6. CASE ReaperRemove
  BY <1>6, Zenon DEF ReaperRemove, Unregister
<1>7. CASE ReaperPush
  BY <1>7, Zenon DEF ReaperPush
<1>8. CASE ReaperDone
  BY <1>8, Zenon DEF ReaperDone
<1>9. CASE \E r \in Runner : SpawnReserve(r)
  BY <1>9, Zenon DEF SpawnReserve
<1>10. CASE \E p \in Pid : SpawnClone(p)
  BY <1>10, Zenon DEF SpawnClone
<1>11. CASE SpawnAborted
  BY <1>11, Zenon DEF SpawnAborted
<1>12. CASE SpawnRegister
  BY <1>12, Zenon DEF SpawnRegister
<1>13. CASE SpawnTargetedReap
  BY <1>13, Zenon DEF SpawnTargetedReap, TargetedReap, Unregister
<1>14. CASE SpawnRegisterFailed
  BY <1>14, Zenon DEF SpawnRegisterFailed, TargetedReap, Unregister
<1>15. CASE SpawnDone
  BY <1>15, Zenon DEF SpawnDone
<1>16. CASE \E r \in Runner, i \in Inst : Recorded(r, i) /\ OpenPidfd(r, i)
  BY <1>16, Zenon DEF OpenPidfd
<1>17. CASE OpenVerified
  BY <1>17, Zenon DEF OpenVerified
<1>18. CASE OpenRaced
  BY <1>18, Zenon DEF OpenRaced
<1>19. CASE \E r \in Runner : Deregister(r)
  BY <1>19, Zenon DEF Deregister, Unregister
<1>20. CASE PollChildReaped
  BY <1>20, Zenon DEF PollChildReaped
<1>21. CASE BrokerRestart
  BY <1>21, Zenon DEF BrokerRestart
<1> QED
  BY <1>1, <1>2, <1>3, <1>4, <1>5, <1>6, <1>7, <1>8, <1>9, <1>10, <1>11, <1>12, <1>13, <1>14, <1>15, <1>16, <1>17, <1>18, <1>19, <1>20, <1>21, Zenon
  DEF BrokerNext, BrokerInternal, ReaperStep, SpawnStep

\* The reaper's half of Locals is inductive.
LEMMA ReaperLocalsStep ==
    ASSUME BrokerTypeOK, ReaperLocals, BrokerNext
    PROVE  ReaperLocals'
<1> USE DEF ReaperLocals, reaperVars
<1>1. CASE \E p \in Pid : Exit(p)
  BY <1>1, Zenon DEF Exit
<1>2. CASE \E p \in Pid : HostFork(p)
  BY <1>2, Zenon DEF HostFork
<1>3. CASE ReaperWake
  BY <1>3, Zenon DEF ReaperWake
<1>4. CASE \E r \in Runner : ReaperPick(r)
  BY <1>4, Zenon DEF ReaperPick, BrokerTypeOK
<1>5. CASE ReaperWaitid
  BY <1>5, Zenon DEF ReaperWaitid, NextId
<1>6. CASE ReaperRemove
  BY <1>6, Zenon DEF ReaperRemove, NextId
<1>7. CASE ReaperPush
  BY <1>7, Zenon DEF ReaperPush, NextId
<1>8. CASE ReaperDone
  BY <1>8, Zenon DEF ReaperDone
<1>9. CASE \E r \in Runner : SpawnReserve(r)
  BY <1>9, Zenon DEF SpawnReserve
<1>10. CASE \E p \in Pid : SpawnClone(p)
  BY <1>10, Zenon DEF SpawnClone
<1>11. CASE SpawnAborted
  BY <1>11, Zenon DEF SpawnAborted
<1>12. CASE SpawnRegister
  BY <1>12, Zenon DEF SpawnRegister
<1>13. CASE SpawnTargetedReap
  BY <1>13, Zenon DEF SpawnTargetedReap, TargetedReap
<1>14. CASE SpawnRegisterFailed
  BY <1>14, Zenon DEF SpawnRegisterFailed, TargetedReap
<1>15. CASE SpawnDone
  BY <1>15, Zenon DEF SpawnDone
<1>16. CASE \E r \in Runner, i \in Inst : Recorded(r, i) /\ OpenPidfd(r, i)
  BY <1>16, Zenon DEF OpenPidfd
<1>17. CASE OpenVerified
  BY <1>17, Zenon DEF OpenVerified
<1>18. CASE OpenRaced
  BY <1>18, Zenon DEF OpenRaced
<1>19. CASE \E r \in Runner : Deregister(r)
  BY <1>19, Zenon DEF Deregister
<1>20. CASE PollChildReaped
  BY <1>20, Zenon DEF PollChildReaped
<1>21. CASE BrokerRestart
  BY <1>21, Zenon DEF BrokerRestart
<1> QED
  BY <1>1, <1>2, <1>3, <1>4, <1>5, <1>6, <1>7, <1>8, <1>9, <1>10, <1>11, <1>12, <1>13, <1>14, <1>15, <1>16, <1>17, <1>18, <1>19, <1>20, <1>21, Zenon
  DEF BrokerNext, BrokerInternal, ReaperStep, SpawnStep

\* The accept loop's half of Locals is inductive.
LEMMA LoopLocalsStep ==
    ASSUME BrokerTypeOK, Clock, Locals, BrokerNext
    PROVE  LoopLocals'
<1>a. \A r \in Runner, i \in Inst : Recorded(r, i) => Recorded(r, i)'
  BY RecordsStep, Zenon
<1>b. \A i \in Inst : i.start <= ticks /\ Exists(i)' => Exists(i)
  BY RecordsStep, Zenon
<1>c. BrokerTypeOK' /\ Clock' /\ LoopStep /\ LoopLocals
  BY TypeStep, LoopSteps, Zenon DEF Locals
<1>1. CASE UNCHANGED loopVars
  BY <1>1, <1>a, <1>b, <1>c, Zenon DEF LoopLocals, loopVars, Recorded, Exists
<1>2. CASE spc' = "accept"
  BY <1>2, Zenon DEF LoopLocals
<1>3. CASE spc' = "clone" /\ sid' \in Runner
  BY <1>3, Zenon DEF LoopLocals
<1>4. CASE \E p \in Pid : SpawnClone(p)
  <2> PICK p \in Pid : SpawnClone(p)
    BY <1>4, Zenon
  <2> DEFINE i == [pid |-> p, start |-> ticks + 1]
  <2>1. /\ sid' = sid /\ sid \in Runner /\ spc' = "register"
        /\ sinst' = i /\ ticks' = ticks + 1 /\ ticks < MaxTicks
        /\ owner'[p] = sid
    BY <1>c, Zenon DEF SpawnClone, Fork, BrokerTypeOK, LoopLocals
  <2>2. i \in Inst
    BY <2>1, BoundsAssumption DEF BrokerTypeOK, Inst
  <2>3. sinst'.pid = p /\ sinst'.start = ticks'
    BY <2>1, Zenon
  <2>4. ticks' \in Nat
    BY <2>1 DEF BrokerTypeOK
  <2> QED BY <2>1, <2>2, <2>3, <2>4 DEF LoopLocals, Recorded, Exists
<1>5. CASE /\ spc \in {"clone", "register", "targeted"} /\ UNCHANGED <<sid, sinst>>
           /\ spc' \in {"targeted", "reply", "failed"}
           /\ spc' # "failed" => spc # "clone"
  BY <1>5, <1>a, <1>c, Zenon DEF LoopLocals, Recorded, Exists
<1>6. CASE \E r \in Runner, i \in Inst : Recorded(r, i) /\ OpenPidfd(r, i)
  <2> PICK r \in Runner, i \in Inst : Recorded(r, i) /\ OpenPidfd(r, i)
    BY <1>6, Zenon
  <2>1. /\ spc' = "verify" /\ sid' = r /\ want' = i
        /\ sinst' = [pid |-> i.pid, start |-> start[i.pid]]
        /\ st[i.pid] # "none"
        /\ UNCHANGED <<st, start, owner, ticks>>
    BY Zenon DEF OpenPidfd, procVars
  <2>2. i.pid \in Pid /\ i = [pid |-> i.pid, start |-> i.start]
    BY Zenon DEF Inst
  <2>3. start[i.pid] \in 1..MaxTicks
    BY <2>1, <2>2, BoundsAssumption DEF BrokerTypeOK, Clock
  <2>4. sinst' \in Inst
    BY <2>1, <2>2, <2>3, Zenon DEF Inst
  <2>5. Exists(want)' => sinst' = want'
    BY <2>1, <2>2, Zenon DEF Exists
  <2>6. Recorded(sid, want)'
    BY <2>1, Zenon DEF Recorded, Exists
  <2> QED BY <2>1, <2>4, <2>5, <2>6, Zenon DEF LoopLocals
<1> QED BY <1>1, <1>2, <1>3, <1>4, <1>5, <1>6, <1>c, Zenon DEF LoopStep

\* RegistryIsOwn is inductive.
LEMMA RegistryStep ==
    ASSUME BrokerTypeOK, Clock, Locals, RegistryIsOwn, BrokerNext
    PROVE  RegistryIsOwn'
<1>1. \A r \in Runner, i \in Inst : Recorded(r, i) => Recorded(r, i)'
  BY RecordsStep, Zenon
<1>2. RegistryChange
  BY RegistryChanges, Zenon
<1> SUFFICES ASSUME NEW r \in Runner, registry'[r] # None
             PROVE  \E i \in Inst : registry'[r] = i /\ Recorded(r, i)
  BY <1>1 DEF RegistryIsOwn, Recorded, Exists
<1>3. CASE registry'[r] = registry[r]
  BY <1>3, Zenon DEF BrokerTypeOK, RegistryIsOwn
<1>4. CASE registry'[r] = sinst /\ r = sid /\ spc = "register" /\ spc' = "targeted"
  BY <1>4, Zenon DEF Locals, LoopLocals
<1>5. CASE registry'[r] = sinst /\ r = sid /\ spc = "verify" /\ StartTimeMatches
  <2>1. want \in Inst /\ Recorded(sid, want) /\ (Exists(want) => sinst = want)
    BY <1>5, Zenon DEF Locals, LoopLocals
  <2>2. Exists(want)
    BY <1>5, <2>1, NoneAssumption, Zenon DEF StartTimeMatches, Exists
  <2> QED BY <1>5, <2>1, <2>2, Zenon
<1> QED BY <1>2, <1>3, <1>4, <1>5, Zenon DEF RegistryChange

\* SpawnNeverOverwrites is inductive.
LEMMA ReservationStep ==
    ASSUME BrokerTypeOK, Locals, SpawnNeverOverwrites, BrokerNext
    PROVE  SpawnNeverOverwrites'
<1> USE DEF SpawnNeverOverwrites
<1>a. RegistryChange
  BY RegistryChanges, Zenon
<1>1. CASE UNCHANGED loopVars
  BY <1>1, <1>a, Zenon DEF loopVars, RegistryChange, Locals, LoopLocals
<1>2. CASE \E r \in Runner : SpawnReserve(r)
  BY <1>2, Zenon DEF SpawnReserve
<1>3. CASE \E p \in Pid : SpawnClone(p)
  BY <1>3, Zenon DEF SpawnClone
<1>4. CASE spc' \notin {"clone", "register"}
  BY <1>4, Zenon
<1>5. UNCHANGED loopVars \/ (\E r \in Runner : SpawnReserve(r)) \/ (\E p \in Pid : SpawnClone(p))
      \/ spc' \notin {"clone", "register"}
  BY Zenon DEF BrokerNext, BrokerInternal, ReaperStep, SpawnStep, Exit, HostFork, ReaperWake, ReaperPick,
         ReaperWaitid, ReaperRemove, ReaperPush, ReaperDone, SpawnAborted, SpawnRegister,
         SpawnTargetedReap, SpawnRegisterFailed, TargetedReap, SpawnDone, OpenPidfd, OpenVerified,
         OpenRaced, Deregister, PollChildReaped, BrokerRestart, Accept
<1> QED BY <1>1, <1>2, <1>3, <1>4, <1>5, Zenon

\* A targeted reap leaves no reap of its own runner to be done.
LEMMA TargetedReapKeepsReaps ==
    ASSUME BrokerTypeOK, NoLostReap, sid \in Runner, sinst \in Inst, NEW next, TargetedReap(next)
    PROVE  NoLostReap'
<1> SUFFICES ASSUME NEW r \in Runner, r \notin late', registry'[r] # None, Reapable(registry[r])'
             PROVE  ReapPending(r)'
  BY Zenon DEF NoLostReap
<1>1. registry'[r] = registry[r] /\ r \notin late /\ registry[r] \in Inst
  BY Zenon DEF TargetedReap, Unregister, BrokerTypeOK
<1>2. Reapable(registry[r])
  BY <1>1, NoneAssumption DEF TargetedReap, Free, Reapable, Exists, BrokerTypeOK, Inst
<1>3. ReapPending(r)
  BY <1>1, <1>2, Zenon DEF NoLostReap
<1>4. ~(sid = r /\ sinst = registry[r])
  BY <1>2, Zenon DEF TargetedReap, Unregister, Reapable, StillAlive, Alive, BrokerTypeOK
<1> QED BY <1>1, <1>3, <1>4, Zenon DEF ReapPending, TargetedReap, reaperVars
\* NoLostReap is inductive.

LEMMA ReapStep ==
    ASSUME BrokerTypeOK, Clock, Locals, NoLostReap, BrokerNext
    PROVE  NoLostReap'
<1> SUFFICES ASSUME NEW r \in Runner, r \notin late', registry'[r] # None, Reapable(registry[r])'
             PROVE  ReapPending(r)'
  BY Zenon DEF NoLostReap
<1> DEFINE i == registry[r]
<1>a. i = registry'[r] /\ r \notin late /\ Reapable(i) => ReapPending(r)
  BY Zenon DEF NoLostReap
<1>b. (registry[r])' \in Inst
  BY TypeStep, Zenon DEF BrokerTypeOK
<1> USE <1>a, <1>b, NoneAssumption DEF ReapPending, Reapable, Exists, reaperVars, loopVars, procVars
<1>1. CASE \E p \in Pid : Exit(p)
  <2> PICK p \in Pid : Exit(p)
    BY <1>1, Zenon
  <2>1. CASE child[p]
    BY <2>1, Zenon DEF Exit
  <2>2. CASE ~child[p]
    <3>1. Free({p}) /\ UNCHANGED <<child, registry, late, sigchld, rpc, todo, rid, rinst, spc, sid, sinst>>
      BY <2>2, Zenon DEF Exit
    <3>2. i = registry'[r] /\ r \notin late /\ Reapable(i)
      BY <3>1, Zenon DEF Free, BrokerTypeOK, Inst
    <3> QED BY <3>1, <3>2, Zenon
  <2> QED BY <2>1, <2>2, Zenon
<1>2. CASE \E p \in Pid : HostFork(p)
  BY <1>2 DEF HostFork, Fork, Clock
<1>3. CASE ReaperWake
  BY <1>3, Zenon DEF ReaperWake
<1>4. CASE \E q \in Runner : ReaperPick(q)
  BY <1>4 DEF ReaperPick
<1>5. CASE ReaperWaitid
  <2>1. registry'[r] = i /\ r \notin late /\ UNCHANGED <<sigchld, todo, spc, sid, sinst>>
    BY <1>5, Zenon DEF ReaperWaitid
  <2>2. CASE Reapable(rinst)
    <3>1. Free({rinst.pid}) /\ child' = [child EXCEPT ![rinst.pid] = FALSE]
      BY <1>5, <2>2, Zenon DEF ReaperWaitid, StillAlive, Alive
    <3>2. rinst # i /\ Reapable(i)
      BY <2>1, <2>2, <3>1, Zenon DEF Free, BrokerTypeOK, Inst
    <3> QED BY <2>1, <3>2, Zenon
  <2>3. CASE ~Reapable(rinst)
    <3>1. Reapable(i)
      BY <1>5, <2>1, <2>3, Zenon DEF ReaperWaitid
    <3> QED BY <2>1, <2>3, <3>1, Zenon
  <2> QED BY <2>2, <2>3, Zenon
<1>6. CASE ReaperRemove
  BY <1>6, Zenon DEF ReaperRemove, NextId, Unregister, BrokerTypeOK
<1>7. CASE ReaperPush
  BY <1>7, Zenon DEF ReaperPush, NextId
<1>8. CASE ReaperDone
  BY <1>8, Zenon DEF ReaperDone
<1>9. CASE \E q \in Runner : SpawnReserve(q)
  BY <1>9 DEF SpawnReserve, Serving
<1>10. CASE \E p \in Pid : SpawnClone(p)
  BY <1>10 DEF SpawnClone, Fork, Clock, Locals, LoopLocals
<1>11. CASE SpawnAborted
  BY <1>11, Zenon DEF SpawnAborted
<1>12. CASE SpawnRegister
  BY <1>12, Zenon DEF SpawnRegister, BrokerTypeOK
<1>13. CASE SpawnTargetedReap
  <2>1. NoLostReap'
    BY <1>13, TargetedReapKeepsReaps, Zenon DEF SpawnTargetedReap, Locals, LoopLocals
  <2> QED BY <2>1, Zenon DEF NoLostReap
<1>14. CASE SpawnRegisterFailed
  <2>1. NoLostReap'
    BY <1>14, TargetedReapKeepsReaps, Zenon DEF SpawnRegisterFailed, Locals, LoopLocals
  <2> QED BY <2>1, Zenon DEF NoLostReap
<1>15. CASE SpawnDone
  BY <1>15, Zenon DEF SpawnDone, Accept
<1>16. CASE \E q \in Runner, j \in Inst : Recorded(q, j) /\ OpenPidfd(q, j)
  <2>1. spc = "accept" /\ UNCHANGED <<st, start, child, registry, late, sigchld, rpc, todo, rid, rinst>>
    BY <1>16, Zenon DEF OpenPidfd, Serving
  <2>2. i = registry'[r] /\ r \notin late /\ Reapable(i)
    BY <2>1, Zenon
  <2> QED BY <2>1, <2>2, Zenon
<1>17. CASE OpenVerified
  BY <1>17, Zenon DEF OpenVerified, Accept, Alive, BrokerTypeOK
<1>18. CASE OpenRaced
  BY <1>18, Zenon DEF OpenRaced, Accept
<1>19. CASE \E q \in Runner : Deregister(q)
  BY <1>19 DEF Deregister, Unregister, Serving, BrokerTypeOK
<1>20. CASE PollChildReaped
  BY <1>20, Zenon DEF PollChildReaped
<1>21. CASE BrokerRestart
  BY <1>21, Zenon DEF BrokerRestart, Accept
<1> QED
  BY <1>1, <1>2, <1>3, <1>4, <1>5, <1>6, <1>7, <1>8, <1>9, <1>10, <1>11, <1>12, <1>13, <1>14, <1>15, <1>16, <1>17, <1>18, <1>19, <1>20, <1>21, Zenon
  DEF BrokerNext, BrokerInternal, ReaperStep, SpawnStep
-----------------------------------------------------------------------------
\* The initial states satisfy the invariant.
LEMMA InitInv == BrokerInit => BrokerInv
<1> SUFFICES ASSUME BrokerInit PROVE BrokerInv
  BY Zenon
<1>1. child \in [Pid -> BOOLEAN] /\ sigchld \in BOOLEAN
  BY Zenon DEF BrokerInit
<1>2. buffer \in Seq([id : Runner, pid : Pid]) /\ Len(buffer) <= ReapCap
  BY BoundsAssumption DEF BrokerInit
<1>3. BrokerTypeOK
  BY <1>1, <1>2, BoundsAssumption DEF BrokerInit, BrokerTypeOK
<1>4. Clock /\ Locals /\ RegistryIsOwn /\ SpawnNeverOverwrites /\ NoLostReap
  BY DEF BrokerInit, Clock, Locals, ReaperLocals, LoopLocals, RegistryIsOwn, SpawnNeverOverwrites,
     NoLostReap
<1> QED BY <1>3, <1>4, Zenon DEF BrokerInv

\* Every step keeps it.
LEMMA StepInv == BrokerInv /\ [BrokerNext]_brokerVars => BrokerInv'
<1> SUFFICES ASSUME BrokerInv, [BrokerNext]_brokerVars
             PROVE  BrokerInv'
  BY Zenon
<1>1. CASE BrokerNext
  BY <1>1, TypeStep, ReaperLocalsStep, LoopLocalsStep, RegistryStep, ReservationStep, ReapStep, Zenon
  DEF BrokerInv, Locals
<1>2. CASE UNCHANGED brokerVars
  <2> USE <1>2 DEF brokerVars, procVars, reaperVars, loopVars
  <2>1. BrokerTypeOK'
    BY DEF BrokerInv, BrokerTypeOK
  <2>2. Clock'
    BY Zenon DEF BrokerInv, Clock
  <2>3. Locals'
    BY Zenon DEF BrokerInv, Locals, ReaperLocals, LoopLocals, Recorded, Exists
  <2>4. RegistryIsOwn' /\ SpawnNeverOverwrites'
    BY Zenon DEF BrokerInv, RegistryIsOwn, SpawnNeverOverwrites, Recorded, Exists
  <2>5. NoLostReap'
    BY Zenon DEF BrokerInv, NoLostReap, ReapPending, Reapable, Exists
  <2> QED BY <2>1, <2>2, <2>3, <2>4, <2>5, Zenon DEF BrokerInv
<1> QED BY <1>1, <1>2, Zenon

\* The broker keeps the inductive invariant, whatever its client does.
THEOREM BrokerInvariant == BrokerSafety => []BrokerInv
BY InitInv, StepInv, PTL DEF BrokerSafety

\* Among it, the types of the registry, the ring buffer and the locals of the two
\* threads: the buffer never exceeds its capacity.
THEOREM BrokerTypes == BrokerSafety => []BrokerTypeOK
<1>1. BrokerInv => BrokerTypeOK
  BY Zenon DEF BrokerInv
<1> QED BY <1>1, BrokerInvariant, PTL

\* Whatever exits, reaps and reuses of pids fall between a client's record,
\* pidfd_open and the start-time check, the pidfd live_open_pidfd registers for a
\* runner id refers to a process spawned under that id.
THEOREM RegistryOwnership == BrokerSafety => []RegistryIsOwn
<1>1. BrokerInv => RegistryIsOwn
  BY Zenon DEF BrokerInv
<1> QED BY <1>1, BrokerInvariant, PTL

\* register_runner_pidfd after reserve_runner_id_for_spawn never overwrites a
\* registration, although the registry is unlocked in between.
THEOREM Reservation == BrokerSafety => []SpawnNeverOverwrites
<1>1. BrokerInv => SpawnNeverOverwrites
  BY Zenon DEF BrokerInv
<1> QED BY <1>1, BrokerInvariant, PTL

\* The reaper thread and targeted_reap_runner together leave no registered child
\* that has exited without a reap to come.
THEOREM NoReapIsLost == BrokerSafety => []NoLostReap
<1>1. BrokerInv => NoLostReap
  BY Zenon DEF BrokerInv
<1> QED BY <1>1, BrokerInvariant, PTL
=============================================================================
