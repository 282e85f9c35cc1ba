SPECIFICATION Spec
CONSTANTS
    Keys = {k1, k2}
    Prefixes = {{k1}, {k2}, {k1, k2}}
    Workers = {w1}
    Runs = {s1, s2}
    FirstHost = 20
    LastHost = 21
    Asked = {2, 20}
    WgShowFails = TRUE
INVARIANTS
    TypeOK
    ScriptPeersKeepAddress
    EveryPeerReported
SYMMETRY Symmetry
