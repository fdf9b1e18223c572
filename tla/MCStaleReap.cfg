CONSTANTS
    Runner = {r1}
    Pid = {p1, p2}
    None = None
    Faults = {}
    MaxTicks = 2
    ReapCap = 2
    MaxBrokerRestarts = 0
    EnvRunner = {}
    MaxCrashes = 0
SPECIFICATION Safety
INVARIANTS
    TerminatedMeansReaped
