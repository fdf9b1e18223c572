CONSTANTS
    Runner = {r1}
    Pid = {p1}
    None = None
    Faults = {}
    MaxTicks = 1
    ReapCap = 2
    MaxBrokerRestarts = 1
    EnvRunner = {}
    MaxCrashes = 1
SPECIFICATION RetrySpec
PROPERTIES
    DeadRegistrationCleared
