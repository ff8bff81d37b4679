CONSTANTS
    Users = {u1}
    Replicas = {r1, r2}
    Sends = {s1, s2}
    Contexts = {c1, c2}
    NoContext = NoContext
    NoUser = NoUser
    NoReplica = NoReplica
    MaxFaults = 1
    McpEnabled = TRUE
    MaxRetries = 2
    MaxRuns = 2
    MaxMessages = 3
    Temperatures = {0, 7, 20}
    Limits = {0, 1, 4096}
SPECIFICATION FairSpec
INVARIANTS ToolsRunOnce RecommendationsFit ProvidersConvey
PROPERTIES ConversationContinues RequestsEnd RequestsAdvance
