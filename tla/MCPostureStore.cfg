SPECIFICATION Spec
CONSTANTS
    d1 = d1
    d2 = d2
    ip1 = ip1
    ip2 = ip2
    loopback = loopback
    Devices = {d1, d2}
    Ips = {ip1, ip2, loopback}
    IpOf <- MCIpOf
    Skew <- MCSkew
    Keys <- MCKeys
    Script = script
    NoKey = NoKey
    Signals = {disk, process}
    AgentSigns = TRUE
    VerifySigs = TRUE
    MaxPostureAge = 1
    StartTime = 3
    MaxTime = 5
    MaxCrashes = 1
    MaxRegistrations = 0
INVARIANTS
    TypeOK
    HealthyIsGenuine
PROPERTY
    ViewSpec
