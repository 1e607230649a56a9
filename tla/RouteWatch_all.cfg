SPECIFICATION SmallSpec
CONSTANTS
    wide = wide
    narrow = narrow
    Vehicles = {v1}
    Routes = {r1, r2}
    Places = {1, 2}
    Shapes = {1, 2}
    Thresholds = {wide, narrow}
    Covers <- CoversOrNear
    StationAt <- Here
    Stations = {1, 2}
    Dwell = 1
    Watchers = {w1, w2}
    Editors = {e1}
    MaxTime = 1
    MaxEvents = 4
    None = None
SYMMETRY Symmetry
INVARIANTS
    TypeOK
    CacheStaleOnlyByRace
    CrossingsAlternate
    
CHECK_DEADLOCK FALSE
