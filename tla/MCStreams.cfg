CONSTANTS
    Endpoint = {a, b}
    s1 = s1
    s2 = s2
    o1 = o1
    o2 = o2
    o3 = o3
    Stream = {s1, s2}
    MaxOpen = 1
    MaxClosed = 1
    MaxFrames = 2
    Operation = {o1, o2, o3}
    Correlation <- OneCorrelation
    Control = {s1}
    Logs = {s2}
    Supply <- StreamsOrContexts
    MaxOps = 2
    MaxInFlight = 2
    Cap = 2
    READ_RETRIES = 2
    Reader = {g1}
    MaxChunk = 3
    MaxEnd = 4
SYMMETRY Symmetry
SPECIFICATION StreamsSpec
INVARIANTS
    SessionTypeOK
    IndexesAgree
    CapsHold
    WindowsAgree
    OpenStreamAccepts
    CloseArrives
    ContextsAgree
    
    ReadsAreTrue
    SidecarValid
    EofIsComplete
PROPERTIES
    OffsetsKept
CHECK_DEADLOCK FALSE
