SPECIFICATION LaterSpec
CONSTANTS
    va = va
    vb = vb
    dr = dr
    Vehicles = {va, vb}
    Drivers = {dr}
    Contents <- Said
    DriverAt <- HandOverAtOne
    Window = 1
    MaxBatch = 2
    Skew = 1
    Fresh = 0
    DayLength = 1
    MaxStamp = 2
    MaxTime = 3
    MaxStops = 1
    MaxMessages = 3
    None = None
INVARIANTS
    TypeOK
    OvertakenOnlyIfLate
    PointsLostOnlyByRaces
    CounterIsRunningTime
    TripsAreOfTheirVehicle
PROPERTIES
    EveryMessageEnds
CHECK_DEADLOCK FALSE
