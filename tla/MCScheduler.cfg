CONSTANTS
    alice = alice
    bob = bob
    Users <- TwoUsers
    Service <- Broken
    NoUser = NoUser
    Loops = {"health", "cleanup"}
    Logged = {"event"}
    MaxFaults = 1
    MaxStarts = 1
SPECIFICATION FairSpec
CHECK_DEADLOCK FALSE
INVARIANTS LoopsSurvive
PROPERTIES OnlyExpiredGo DeletionsAreRecorded StopInterrupts StopEnds ExpiredEntriesGo AlertsArrive
