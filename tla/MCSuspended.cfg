CONSTANTS
    Tasks = {t1, t2}
    Users = {alice}
    Locks = {l1, l2}
    NoTask = NoTask
    NoUser = NoUser
    NoLock = NoLock
    Events <- DeletionEvents
    KeysEnforced = TRUE
    MaxFaults = 0
    MaxRestarts = 0
SPECIFICATION Spec
PROPERTIES SuspendedStays
