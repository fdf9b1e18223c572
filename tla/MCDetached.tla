------------------------------ MODULE MCDetached ------------------------------
EXTENDS DetachedRegistry

\* Exec ids are interchangeable: in a state that names none, the next one to be
\* created may be called First.
First == CHOOSE x \in Exec : TRUE
Named ==
    {call[a].id : a \in Actor}
        \union UNION {{entry[s].id, disk[s].id, disk[s].by, disk[s].log, unit[s].id} : s \in Slot}
        \union {tombstones[k] : k \in DOMAIN tombstones}
InOrder == Named = {NoExec} => \A s \in Slot : entry'[s].id \in {NoExec, First}

\* A bound: no call comes in after both a crash and a fault.
Settles ==
    crashes = MaxCrashes /\ faults = MaxFaults =>
        \A c \in Caller : call[c] = IdleCall => UNCHANGED call[c]

BoundedNext == RegistryNext /\ InOrder /\ Settles
BoundedSpec == RegistryInit /\ [][BoundedNext]_vars /\ RegistryFairness
===============================================================================
