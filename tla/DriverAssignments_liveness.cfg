SPECIFICATION LiveSpec
CONSTANTS
    Drivers = {1, 2}
    Vehicles = {1, 2}
    RowIds = {1, 2, 3, 4}
    Requests = {q1, q2}
    MaxTime = 1
    None = None
PROPERTIES
    EveryRequestAnswered
CHECK_DEADLOCK FALSE
