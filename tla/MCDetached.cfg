CONSTANTS
 Slot = {0}
 Exec = {x, y}
 Caller = {c}
 Reaper = reaper
 NoExec = none
 MaxActive = 1
 Ceiling = FALSE
 MaxCrashes = 1
 MaxFaults = 1
SPECIFICATION BoundedSpec
INVARIANTS AccountsExact  LostIsDead  
PROPERTIES TerminalFinal HiddenResolves
