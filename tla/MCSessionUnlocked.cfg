CONSTANTS
    Tasks = {t1, t2}
    Users = {alice}
    Locks = {l1, l2}
    NoTask = NoTask
    NoUser = NoUser
    NoLock = NoLock
    Events <- UnlockedEvents
    KeysEnforced = FALSE
    MaxFaults = 1
    MaxRestarts = 0
SPECIFICATION FairSpec
PROPERTIES StartsOnlyUnderLock DeletedStays RequestsEnd EveryWaiterIsServed
