SPECIFICATION FairSpec
CONSTANTS
    e1 = e1
    u1 = u1
    u2 = u2
    Ids = {a}
    Peers = {p1, p2}
    Users = {u1, u2}
    FirstMatch <- MCFirstMatch
    Emails = {e1}
    NoEmail = NoEmail
    MaxLog = 3
    MaxFaults = 1
    MaxProvisions = 2
    MaxRestarts = 1
INVARIANTS
    TypeOK
    RevocationHasCause
PROPERTIES
    AccessEndsWithCause
    DegradationIsRevoked
