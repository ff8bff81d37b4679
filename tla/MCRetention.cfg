CONSTANTS
    alice = alice
    bob = bob
    Users <- TwoUsers
    Service <- Broken
    NoUser = NoUser
    Loops = {"cleanup"}
    Logged = {"event", "user.deleted"}
    MaxFaults = 0
    MaxStarts = 1
SPECIFICATION Spec
CHECK_DEADLOCK FALSE
PROPERTIES CriticalLogsStay
