CONSTANTS
    Drivers = {d1}
    Vehicles = {v1}
    RouteIds = {r1, r2}
    Calls = {q1, q2}
    MaxTime = 3
    MaxEvents = 0
    FreshFor = 1
    None = None
SPECIFICATION Spec
PROPERTIES
    AcceptedPointsKept
