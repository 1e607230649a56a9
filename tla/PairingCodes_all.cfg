\* Two boards and a page race over one code that two users are given in turn.
CONSTANTS
    Codes = {c1}
    Users = {u1, u2}
    Devices = {d1, d2}
    Boards = {b1, b2}
    Waiters = {w1}
    TTL = 1
    UsedTTL = 1
    MaxTime = 3
    None = None
SPECIFICATION CodesFairSpec
INVARIANTS
    CodesTypeOK
    RedeemedForIssuer
PROPERTIES
    EveryWaitAnswered
