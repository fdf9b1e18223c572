CONSTANTS
 Slot = {0}
 Exec = {x, y}
 Caller = {c}
 Reaper = reaper
 NoExec = none
 MaxActive = 1
 Ceiling = FALSE
 MaxCrashes = 0
 MaxFaults = 0
SPECIFICATION RegistrySpec
INVARIANT PublishedStatusWins
