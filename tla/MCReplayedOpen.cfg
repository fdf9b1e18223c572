CONSTANTS
    Worker = {w1, w2, w3}
    Vm = {v1, v2}
    NoWorker = NoWorker
    Thread = {t1, t2}
    s1 = s1
    s2 = s2
    Session = {s1, s2}
    Asks <- DisplayRequests
    MaxRequests = 3
    OpenRequest <- Opens
    Peer = {"p1", "p2"}
    Admin = {"p2"}
    Absent = Absent
    MaxPerPrincipal = 1
    MaxPerRealm = 2
    MaxRecords = 2
SPECIFICATION RequestsSpec
INVARIANT ReplayPreservesHandles
