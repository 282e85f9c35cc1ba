SPECIFICATION FairGatewaySpec
CONSTANTS
    d1 = d1
    Devices = {d1}
    Skew <- MCSkew
    Workers = {w1}
    Users = {u1}
    Locations = {"/public", "/api/peers", "/api/risk-score"}
    MaxLogins = 1
    EngineFaults = {"unreachable", "no_result", "bad_json"}
    MaxPostureAge = 0
    StartTime = 2
    MaxTime = 2
    ReauthWindow = 0
    StaleAge = 0
    VeryStaleAge = 1
    RISK_THRESHOLD = 70
    HalfHour = 0
    Hour = 1
PROPERTY
    EveryRequestAnswered
