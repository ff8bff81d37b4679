CONSTANTS
    Kids = {k1}
    StaticKid = NoKid
    NoKid = NoKid
    Verifiers = {c1, c2}
    NoToken = NoToken
    Ttl = 1
    FetchTime = 0
    Life = 2
    MaxTime = 1
    Timers = {i1, i2}
    NoTimer = NoTimer
    MaxAttempts = 2
    Buffer = 1
    MaxFaults = 1
    MaxEvents = 2
SPECIFICATION FairSpec
INVARIANTS OneTimer
PROPERTIES RetiredKeysExpire CallsReturn KeyArrives CallsAdvance
CHECK_DEADLOCK FALSE
