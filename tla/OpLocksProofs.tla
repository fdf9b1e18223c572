--------------------------- MODULE OpLocksProofs ---------------------------
(***************************************************************************)
(* Proofs about OpLocks for any set of workers and VMs: the type           *)
(* invariant, the inductive invariant LockInv, mutual exclusion, and the   *)
(* refinement of OpExclusion.                                              *)
(***************************************************************************)
EXTENDS OpLocks, TLAPS

\* The three kinds of class are disjoint, and a per-VM class is determined by
\* its VM.
LEMMA ClassFacts ==
    ASSUME NEW c \in OpLockClass
    PROVE  /\ c.kind \in {"ReadOnly", "Global", "PerVm"}
           /\ c.kind = "ReadOnly" <=> c = ReadOnly
           /\ c.kind = "Global" <=> c = Global
           /\ c.kind = "PerVm" => c.vm \in Vm /\ c = PerVm(c.vm)
           /\ \A v \in Vm : c = PerVm(v) => c.kind = "PerVm" /\ c.vm = v
BY DEF OpLockClass, ReadOnly, Global, PerVm

\* The inductive step: whichever worker moves, the program points still say which
\* locks are held.
LEMMA LockInvStep == LockTypeOK /\ LockInv /\ [LockNext]_lockVars => LockTypeOK' /\ LockInv'
<1> SUFFICES ASSUME LockTypeOK, LockInv, [LockNext]_lockVars PROVE LockTypeOK' /\ LockInv'
  BY Zenon
<1>c. \A w \in Worker : class[w] \in OpLockClass
  BY Zenon DEF LockTypeOK
<1>k. \A w \in Worker : class[w].kind = "PerVm" => class[w].vm \in Vm /\ class[w] = PerVm(class[w].vm)
  BY <1>c, ClassFacts, Zenon
<1>v. \A w \in Worker, v \in Vm : class[w] = PerVm(v) => class[w].kind = "PerVm" /\ class[w].vm = v
  BY <1>c, ClassFacts, Zenon
<1>g. \A w \in Worker : class[w].kind \in {"ReadOnly", "Global", "PerVm"}
  BY <1>c, ClassFacts, Zenon
<1> USE NoWorkerAssumption DEF LockTypeOK, LockPC, LockInv, ClassAtPc, ReaderAtPc, WriterAtPc,
                               VmHolderAtPc, GlobalDrained
<1>1. ASSUME NEW w \in Worker, NEW c \in OpLockClass, Request(w, c)
      PROVE  LockTypeOK' /\ LockInv'
  <2>1. /\ c.kind \in {"ReadOnly", "Global", "PerVm"}
        /\ \A v \in Vm : c = PerVm(v) => c.kind = "PerVm"
    BY ClassFacts, Zenon
  <2>2. /\ class' = [class EXCEPT ![w] = c]
        /\ stage' \in [Worker -> LockPC]
        /\ c.kind = "ReadOnly" => stage' = [stage EXCEPT ![w] = "held"]
        /\ c.kind = "PerVm" => stage' = [stage EXCEPT ![w] = "wantRead"]
        /\ c.kind = "Global" => stage' = [stage EXCEPT ![w] = "wantWrite"]
    BY <1>1, <2>1, Zenon DEF Request
  <2>3. UNCHANGED <<globalWriter, readers, perVm, vmHolder>> /\ stage[w] = "idle"
    BY <1>1, Zenon DEF Request
  <2>4. CASE c.kind = "ReadOnly"
    BY <2>1, <2>2, <2>3, <2>4
  <2>5. CASE c.kind = "PerVm"
    BY <2>1, <2>2, <2>3, <2>5
  <2>6. CASE c.kind = "Global"
    BY <2>1, <2>2, <2>3, <2>6
  <2> QED
    BY <2>1, <2>4, <2>5, <2>6, Zenon
<1>2. ASSUME NEW w \in Worker, ReadGlobal(w) PROVE LockTypeOK' /\ LockInv'
  BY <1>2, <1>g DEF ReadGlobal
<1>3. ASSUME NEW w \in Worker, GetVmLock(w) PROVE LockTypeOK' /\ LockInv'
  BY <1>3, <1>k DEF GetVmLock
<1>4. ASSUME NEW w \in Worker, LockVm(w) PROVE LockTypeOK' /\ LockInv'
  <2>1. class[w].kind = "PerVm" /\ class[w].vm \in Vm /\ class[w] = PerVm(class[w].vm)
    BY <1>4, <1>k, Zenon DEF LockVm
  <2>2. LockTypeOK' /\ ClassAtPc' /\ ReaderAtPc' /\ WriterAtPc' /\ GlobalDrained'
    BY <1>4, <2>1 DEF LockVm
  <2>3. VmHolderAtPc'
    BY <1>4, <2>1, <1>v DEF LockVm
  <2> QED
    BY <2>2, <2>3, Zenon
<1>5. ASSUME NEW w \in Worker, ClaimWriter(w) PROVE LockTypeOK' /\ LockInv'
  BY <1>5 DEF ClaimWriter
<1>6. ASSUME NEW w \in Worker, DrainReaders(w) PROVE LockTypeOK' /\ LockInv'
  BY <1>6, <1>v DEF DrainReaders
<1>7. ASSUME NEW w \in Worker, Release(w) PROVE LockTypeOK' /\ LockInv'
  BY <1>7, <1>g, <1>v DEF Release
<1>8. ASSUME NEW w \in Worker, UnlockVm(w) PROVE LockTypeOK' /\ LockInv'
  <2>1. class[w].kind = "PerVm" /\ class[w].vm \in Vm /\ class[w] = PerVm(class[w].vm)
    BY <1>8, <1>k, Zenon DEF UnlockVm
  <2>2. LockTypeOK' /\ ClassAtPc' /\ ReaderAtPc' /\ WriterAtPc' /\ GlobalDrained'
    BY <1>8, <2>1 DEF UnlockVm
  <2>3. VmHolderAtPc'
    BY <1>8, <2>1, <1>v DEF UnlockVm
  <2> QED
    BY <2>2, <2>3, Zenon
<1>9. CASE UNCHANGED lockVars
  BY <1>9 DEF lockVars
<1> QED
  BY <1>1, <1>2, <1>3, <1>4, <1>5, <1>6, <1>7, <1>8, <1>9, Zenon DEF LockNext, Acquire, Drop

\* Nothing is held at the start.
LEMMA LockInvInit == LockInit => LockTypeOK /\ LockInv
BY NoWorkerAssumption, Zenon DEF LockInit, LockTypeOK, LockPC, OpLockClass, ReadOnly, LockInv, ClassAtPc,
   ReaderAtPc, WriterAtPc, VmHolderAtPc, GlobalDrained

\* Every variable keeps its type and the program points determine the lock
\* holders, in every execution.
THEOREM LockInvariant == LockSafety => [](LockTypeOK /\ LockInv)
BY LockInvInit, LockInvStep, PTL DEF LockSafety

\* A worker of dispatch_request is always at one of its program points, with a
\* class of OpLockClass, and the locks name workers.
THEOREM LockTypes == LockSafety => []LockTypeOK
BY LockInvariant, PTL

\* No two running operations of d2bd conflict: the locks of OpLockManager::acquire
\* keep two operations on one VM apart, and a global operation apart from all.
THEOREM Exclusive == LockSafety => []MutualExclusion
<1>1. LockTypeOK /\ LockInv => MutualExclusion
  <2> SUFFICES ASSUME LockTypeOK, LockInv, NEW w \in Worker, NEW u \in Worker,
                      w # u, Running(w), Running(u)
               PROVE  /\ ~(class[w] = Global /\ class[u].kind \in {"Global", "PerVm"})
                      /\ ~(class[w].kind = "PerVm" /\ class[w] = class[u])
    BY Zenon DEF MutualExclusion
  <2>1. class[w] \in OpLockClass /\ class[u] \in OpLockClass
    BY Zenon DEF LockTypeOK
  <2>2. ~(class[w] = Global /\ class[u].kind \in {"Global", "PerVm"})
    BY <2>1, ClassFacts DEF LockInv, WriterAtPc, ReaderAtPc, GlobalDrained, Running
  <2>3. ASSUME class[w].kind = "PerVm", class[w] = class[u] PROVE FALSE
    <3>1. class[w].vm \in Vm /\ class[w] = PerVm(class[w].vm)
      BY <2>1, <2>3, ClassFacts, Zenon
    <3> QED
      BY <2>3, <3>1 DEF LockInv, VmHolderAtPc, Running
  <2> QED
    BY <2>2, <2>3, Zenon
<1> QED
  BY <1>1, LockInvariant, PTL

\* The refinement of OpExclusion: every execution of the locks is, through Phase,
\* an execution in which operations of conflicting classes never overlap.
THEOREM Refinement == LockSafety => ImplementsExclusion
<1>1. LockInit => Exclusion!AbsInit
  BY Zenon DEF LockInit, Exclusion!AbsInit, LockPhase, ReadOnly, Exclusion!ReadOnly
<1>2. ASSUME LockTypeOK, LockInv, [LockNext]_lockVars PROVE [Exclusion!AbsNext]_(Exclusion!absVars)
  <2>t. stage \in [Worker -> LockPC] /\ class \in [Worker -> OpLockClass]
    BY <1>2, Zenon DEF LockTypeOK
  <2> USE <1>2, <2>t DEF LockPC
  <2>1. ASSUME NEW w \in Worker, NEW c \in OpLockClass, Request(w, c)
        PROVE  Exclusion!AbsNext
    <3>1. c.kind = "ReadOnly" <=> c = Exclusion!ReadOnly
      BY ClassFacts, Zenon DEF ReadOnly, Exclusion!ReadOnly
    <3>2. c \in Exclusion!OpLockClass
      BY Zenon DEF OpLockClass, Exclusion!OpLockClass, ReadOnly, Exclusion!ReadOnly, Global,
             Exclusion!Global, PerVm, Exclusion!PerVm
    <3>3. Exclusion!Ask(w, c)
      BY <2>1, <3>1, Zenon DEF Exclusion!Ask, Request, LockPhase
    <3> QED
      BY <3>2, <3>3, Zenon DEF Exclusion!AbsNext
  <2>2. ASSUME NEW w \in Worker, ReadGlobal(w) \/ GetVmLock(w) \/ ClaimWriter(w)
        PROVE  UNCHANGED Exclusion!absVars
    BY <2>2, Zenon DEF ReadGlobal, GetVmLock, ClaimWriter, Exclusion!absVars, LockPhase
  <2>3. ASSUME NEW w \in Worker, LockVm(w) \/ DrainReaders(w)
        PROVE  Exclusion!AbsNext
    <3>1. ASSUME NEW u \in Worker, Running(u)
          PROVE  ~Exclusion!Conflict(class[w], class[u])
      <4>1. /\ class[w] \in OpLockClass /\ class[u] \in OpLockClass
            /\ Exclusion!Global = Global /\ Exclusion!ReadOnly = ReadOnly
        BY Zenon DEF Exclusion!Global, Exclusion!ReadOnly, Global, ReadOnly
      <4>2. CASE DrainReaders(w)
        <5>1. class[w].kind = "Global" /\ globalWriter = w /\ readers = {} /\ stage[w] = "drain"
          BY <4>2, Zenon DEF DrainReaders, LockInv, ClassAtPc, WriterAtPc
        <5>2. class[u].kind = "ReadOnly"
          BY <3>1, <4>1, <5>1, ClassFacts, Zenon DEF LockInv, ReaderAtPc, WriterAtPc, Running
        <5> QED
          BY <4>1, <5>2, ClassFacts, Zenon DEF Exclusion!Conflict
      <4>3. CASE LockVm(w)
        <5>1. /\ class[w].kind = "PerVm" /\ w \in readers
              /\ class[w].vm \in Vm /\ class[w] = PerVm(class[w].vm)
              /\ vmHolder[class[w].vm] = NoWorker
          BY <4>1, <4>3, ClassFacts, Zenon DEF LockVm, LockInv, ClassAtPc, ReaderAtPc
        <5>2. class[u] # class[w]
          BY <3>1, <5>1, NoWorkerAssumption DEF LockInv, VmHolderAtPc, Running
        <5>3. class[u].kind # "Global"
          BY <3>1, <5>1, Zenon DEF LockInv, GlobalDrained, Running
        <5> QED
          BY <4>1, <5>1, <5>2, <5>3, ClassFacts, Zenon DEF Exclusion!Conflict
      <4> QED
        BY <2>3, <4>2, <4>3, Zenon
    <3>2. Exclusion!Begin(w)
      BY <2>3, <3>1, Zenon DEF Exclusion!Begin, LockVm, DrainReaders, LockPhase, Running
    <3> QED
      BY <3>2, Zenon DEF Exclusion!AbsNext
  <2>4. ASSUME NEW w \in Worker, Release(w) PROVE Exclusion!AbsNext
    <3>1. Exclusion!Finish(w)
      BY <2>4, Zenon DEF Exclusion!Finish, Release, LockPhase
    <3> QED
      BY <3>1, Zenon DEF Exclusion!AbsNext
  <2>5. ASSUME NEW w \in Worker, UnlockVm(w) PROVE UNCHANGED Exclusion!absVars
    BY <2>5, Zenon DEF UnlockVm, Exclusion!absVars, LockPhase
  <2>6. CASE UNCHANGED lockVars
    BY <2>6, Zenon DEF lockVars, Exclusion!absVars, LockPhase
  <2> QED
    BY <2>1, <2>2, <2>3, <2>4, <2>5, <2>6, Zenon DEF LockNext, Acquire, Drop
<1> QED
  BY <1>1, <1>2, LockInvariant, PTL DEF LockSafety, ImplementsExclusion, Exclusion!AbsSafety
=============================================================================
