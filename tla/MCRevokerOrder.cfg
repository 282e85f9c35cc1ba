SPECIFICATION Spec
CONSTANTS
    e1 = e1
    u1 = u1
    u2 = u2
    Ids = {a, b}
    Peers = {p1}
    Users = {u1, u2}
    FirstMatch <- MCFirstMatch
    Emails = {e1}
    NoEmail = NoEmail
    MaxLog = 2
    MaxFaults = 1
    MaxProvisions = 1
    MaxRestarts = 1
INVARIANT
    RevocationFollowsDegradation
