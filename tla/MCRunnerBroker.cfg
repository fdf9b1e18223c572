CONSTANTS
    Runner = {r1, r2}
    Pid = {p1, p2}
    None = None
    Faults = {"spawn", "rpc", "io"}
    MaxTicks = 2
    ReapCap = 1
    MaxBrokerRestarts = 1
SPECIFICATION BrokerSpec
INVARIANTS
    BrokerTypeOK
    RegistryIsOwn
    SpawnNeverOverwrites
    NoLostReap
PROPERTY ExitedChildIsCleared
