SPECIFICATION Spec
CONSTANTS
    Drivers = {d1, d2}
    Vehicles = {v1, v2}
    RowIds = {r1, r2, r3}
    Requests = {q1, q2}
    MaxTime = 2
    None = None
SYMMETRY Symmetry
INVARIANTS
    TypeOK
PROPERTIES
    HistoryKept
    ImplementsPairing
CHECK_DEADLOCK FALSE
