CONSTANTS
    alice = alice
    bob = bob
    home = home
    other = other
    x = x
    y = y
    z = z
    doc = doc
    Subjects = {alice, bob}
    Tenants = {home, other}
    FixedTenant = home
    RecordIds = {x, y, z}
    Uuids = {z}
    Names = {doc}
    Calls = {c1, c2}
    Requests <- TenantRequests
    NoTenant = NoTenant
    NoId = NoId
    NoName = NoName
    NoRequest = NoRequest
    NoMessage = NoMessage
    MaxAttempts = 1
    MaxFaults = 0
SPECIFICATION Spec
PROPERTIES DeletesKeepToScope
CHECK_DEADLOCK FALSE
