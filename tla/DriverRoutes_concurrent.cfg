\* Overlapping calls on two rows of one table.
CONSTANTS
    Drivers = {d1}
    Vehicles = {v1}
    RouteIds = {r1, r2}
    Calls = {q1, q2}
    MaxTime = 2
    MaxEvents = 1
    FreshFor = 0
    None = None
SPECIFICATION Spec
SYMMETRY Symmetry
INVARIANTS
    TypeOK
    
    PointsFromStart
