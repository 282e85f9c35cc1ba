SPECIFICATION FairSpec
CONSTANTS
    d1 = d1
    d2 = d2
    ip1 = ip1
    ip2 = ip2
    loopback = loopback
    Devices = {d1}
    Ips = {ip1, ip2, loopback}
    IpOf <- MCIpOf1
    Skew <- MCSkew1
    Keys <- MCKeys1
    Script = script
    NoKey = NoKey
    Signals = {disk, process}
    AgentSigns = TRUE
    VerifySigs = TRUE
    MaxPostureAge = 0
    StartTime = 3
    MaxTime = 4
    MaxCrashes = 2
    MaxRegistrations = 1
INVARIANTS
    SerialRunsKeepVerdicts
PROPERTY
    StoreRecovers
