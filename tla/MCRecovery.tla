----------------------------- MODULE MCRecovery -----------------------------
EXTENDS RunnerSupervision, TLC

VARIABLE left   \* the operations each runner may still be asked for, and the crashes left

\* Pids are interchangeable and, with EnvRunner empty, so are the runner ids.
Symmetry == Permutations(Runner) \union Permutations(Pid)

\* Bounds of recovery: one operation on each runner and one crash, or three on one
\* runner and two crashes.
Agenda ==
    {[ops |-> [r \in Runner |-> 1], crashes |-> 1]}
        \union {[ops |-> [q \in Runner |-> IF q = r THEN 3 ELSE 0], crashes |-> 2] : r \in Runner}

Begun(r) == pc[r] = "idle" /\ pc'[r] # "idle"

RecoveryNext ==
    /\ Next
    /\ left' = [ops |-> [r \in Runner |-> left.ops[r] - (IF Begun(r) THEN 1 ELSE 0)],
                crashes |-> left.crashes - (crashes' - crashes)]
    /\ left'.crashes >= 0 /\ \A r \in Runner : left'.ops[r] >= 0

Recovery == Init /\ left \in Agenda /\ [][RecoveryNext]_<<vars, left>>
=============================================================================
