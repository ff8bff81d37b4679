CONSTANTS
    Identities = {i1, i2}
    Addresses = {a1, a2}
    Rows = {r1, r2}
    Tasks = {t1, t2}
    NoIdentity = NoIdentity
    NoAddress = NoAddress
    NoRow = NoRow
    MaxMessages = 2
    MaxRestarts = 1
SPECIFICATION FairSpec
INVARIANTS AnswersAreLinked
PROPERTIES SignUpsSettle ImplementsIdentityRegistry
