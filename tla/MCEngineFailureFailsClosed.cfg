SPECIFICATION Spec
CONSTANTS
    d1 = d1
    Devices = {d1}
    Skew <- MCSkew
    Workers = {w1}
    Users = {u1}
    Locations = {"/public", "/sensitive", "/admin"}
    MaxLogins = 1
    EngineFaults = {"bad_json"}
    MaxPostureAge = 0
    StartTime = 2
    MaxTime = 4
    ReauthWindow = 0
    StaleAge = 0
    VeryStaleAge = 1
INVARIANT
    EngineFailureFailsClosed
