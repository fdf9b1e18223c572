---------------------------- MODULE OpExclusion ----------------------------
(***************************************************************************)
(* What the operation locks of d2bd promise, with no locks in sight: which *)
(* operations may run at the same time.  OpLocks implements it.            *)
(***************************************************************************)
CONSTANTS Worker, Vm

\* OpLockClass.  A class is a record so that PerVm carries its VM.
ReadOnly == [kind |-> "ReadOnly"]
Global == [kind |-> "Global"]
PerVm(v) == [kind |-> "PerVm", vm |-> v]
OpLockClass == {ReadOnly, Global} \union {PerVm(v) : v \in Vm}

\* Two classes whose operations must not overlap: a global operation excludes
\* every locking operation, two per-VM operations exclude each other on the
\* same VM only, and a read-only operation excludes nothing.
Conflict(c, d) ==
    /\ c # ReadOnly
    /\ d # ReadOnly
    /\ c = Global \/ d = Global \/ c = d

VARIABLES phase, class

absVars == <<phase, class>>

AbsInit ==
    /\ phase = [w \in Worker |-> "idle"]
    /\ class = [w \in Worker |-> ReadOnly]

Ask(w, c) ==
    /\ phase[w] = "idle"
    /\ class' = [class EXCEPT ![w] = c]
    /\ phase' = [phase EXCEPT ![w] = IF c = ReadOnly THEN "running" ELSE "pending"]

Begin(w) ==
    /\ phase[w] = "pending"
    /\ \A u \in Worker : phase[u] = "running" => ~Conflict(class[w], class[u])
    /\ phase' = [phase EXCEPT ![w] = "running"]
    /\ UNCHANGED class

Finish(w) ==
    /\ phase[w] = "running"
    /\ phase' = [phase EXCEPT ![w] = "idle"]
    /\ UNCHANGED class

AbsNext ==
    \E w \in Worker : Begin(w) \/ Finish(w) \/ \E c \in OpLockClass : Ask(w, c)

AbsSafety == AbsInit /\ [][AbsNext]_absVars
=============================================================================
