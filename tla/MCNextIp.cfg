SPECIFICATION Spec
CONSTANTS
    Keys = {k1, k2}
    Prefixes = {{k1}, {k2}}
    Workers = {w1, w2}
    Runs = {}
    FirstHost = 20
    LastHost = 21
    Asked = {2, 20}
    WgShowFails = FALSE
INVARIANT
    NextIpIsFree
