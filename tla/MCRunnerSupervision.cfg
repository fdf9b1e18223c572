CONSTANTS
    Runner = {r1}
    Pid = {p1}
    None = None
    Faults = {"spawn", "rpc", "io"}
    MaxTicks = 2
    ReapCap = 1
    MaxBrokerRestarts = 1
    EnvRunner = {}
    MaxCrashes = 1
SPECIFICATION Spec
CONSTRAINT OneOutage
INVARIANTS
    RecordsAreOwn
PROPERTIES
    KeepsBrokerContract
    EveryOperationReturns
