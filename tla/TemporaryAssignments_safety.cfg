\* Two vehicles lent out together or one after the other: two sweeps and a request
\* overlap, one call fails, the process restarts once.
CONSTANTS
    Vehicles = {v1, v2}
    Fences = {f1, f2}
    RecIds = {r1, r2}
    Calls = {q1}
    Sweeps = {s1, s2}
    MaxTime = 1
    MaxFaults = 1
    MaxCrashes = 1
    CreateAlone = TRUE
    None = None
    Keep = Keep
SPECIFICATION Spec
SYMMETRY Symmetry
INVARIANTS
    TypeOK
    
    OriginalComesBack
