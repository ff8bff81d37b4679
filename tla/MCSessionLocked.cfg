CONSTANTS
    Tasks = {t1, t2, t3}
    Users = {alice}
    Locks = {l1, l2, l3}
    NoTask = NoTask
    NoUser = NoUser
    NoLock = NoLock
    Events <- LockedEvents
    KeysEnforced = TRUE
    MaxFaults = 1
    MaxRestarts = 1
SPECIFICATION Spec
SYMMETRY Symmetry
INVARIANTS TypeOK RegistryIsWeak OneTaskPerSection NoLockIsLost SectionsTakeEffect RowMatchesContainer RunningIsTracked
PROPERTIES RequestsAdvance NobodyOvertakes ImplementsUserMutex
