SPECIFICATION Spec
CONSTANTS
    CardIds = {c1, c2}
    Users = {u1, u2}
    Taps = {t1, t2}
    Sessions = {s1}
    Submits = {k1, k2}
    ARM_TTL_MS = 0
    USED_TTL_MS = 1
    PendingTtl = 0
    MaxTime = 1
    BadUid = BadUid
    None = None
SYMMETRY Symmetry
CONSTRAINT Small
INVARIANTS
    TypeOK
    RetryIsAnswered
    CacheNamesHolder
    WaitingSessionsEnd
PROPERTIES
    CardTakenByItsTap
CHECK_DEADLOCK FALSE
