SPECIFICATION SmallSpec
CONSTANTS
    sa1 = sa1
    sa2 = sa2
    boss = boss
    user = user
    Users = {sa1, sa2, boss, user}
    RoomIds = {r1, r2, r3}
    Calls = {k1, k2}
    MaxEvents = 2
    None = None
SYMMETRY Symmetry
CONSTRAINT SomeTrees
INVARIANTS
    TypeOK
    OneGroupPerRoot
    JoinsOwnGroup
    SubtreeFollows
PROPERTIES
    LockOnlyByToggle
CHECK_DEADLOCK FALSE
