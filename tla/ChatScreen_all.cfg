\* One tab and two rooms, one of them direct: three times the user opens a room or
\* looks for an old message, the connection breaks or an answer takes too long.
CONSTANTS
    tab = tab
    a = a
    s1 = s1
    Pages = {tab}
    Rooms = {a, b}
    Direct = {b}
    Sids = {s1, s2}
    Joins = {j1, j2}
    Loads = {l1, l2}
    Limit = 1
    MaxTries = 2
    MaxMsgs = 3
    MaxEvents = 3
    None = None
SPECIFICATION FairSpec
INVARIANTS
    TypeOK
    SettledIsJoined
    MissingOnlyFromGaps
    StrangeOnlyByLateAnswer
    ListedIfASocketIs
PROPERTIES
    ViewersAreJoined
CHECK_DEADLOCK FALSE
