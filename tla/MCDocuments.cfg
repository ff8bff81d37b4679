CONSTANTS
    alice = alice
    bob = bob
    home = home
    other = other
    x = x
    y = y
    z = z
    doc = doc
    Subjects = {alice, bob}
    Tenants = {home, other}
    FixedTenant = home
    RecordIds = {x, y, z}
    Uuids = {z}
    Names = {doc}
    Calls = {c1, c2}
    Requests <- MCRequests
    NoTenant = NoTenant
    NoId = NoId
    NoName = NoName
    NoRequest = NoRequest
    NoMessage = NoMessage
    MaxAttempts = 3
    MaxFaults = 2
SPECIFICATION FairSpec
INVARIANTS RecordsAreScoped
PROPERTIES DeletesAreScoped AcknowledgedIsStored RepeatedIngestsLand
CHECK_DEADLOCK FALSE
