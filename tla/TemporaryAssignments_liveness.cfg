\* One vehicle lent out twice: two sweeps and a request overlap, one call fails,
\* the process restarts once.
CONSTANTS
    Vehicles = {v1}
    Fences = {f1}
    RecIds = {r1, r2}
    Calls = {q1}
    Sweeps = {s1, s2}
    MaxTime = 1
    MaxFaults = 1
    MaxCrashes = 1
    CreateAlone = TRUE
    None = None
    Keep = Keep
SPECIFICATION FairSpec
PROPERTIES
    EveryAssignmentEnds
