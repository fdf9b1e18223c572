CONSTANTS
    Runner = {r1, r2}
    Pid = {p1}
    None = None
    Faults = {}
    MaxTicks = 2
    ReapCap = 1
    MaxBrokerRestarts = 0
    EnvRunner = {}
    MaxCrashes = 2
SYMMETRY Symmetry
SPECIFICATION Recovery
INVARIANTS
    CrashSafe
    SnapshotsAreSupervised
CHECK_DEADLOCK FALSE
