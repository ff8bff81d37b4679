CONSTANTS
    Tasks = {t1}
    Users = {alice, bob}
    Locks = {l1}
    NoTask = NoTask
    NoUser = NoUser
    NoLock = NoLock
    Events <- SweepEvents
    KeysEnforced = FALSE
    MaxFaults = 2
    MaxRestarts = 0
SPECIFICATION FairSpec
PROPERTIES IdleEntriesAreSwept
