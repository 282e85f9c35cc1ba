SPECIFICATION GatewaySpec
CONSTANTS
    d1 = d1
    Devices = {d1}
    Skew <- MCSkew
    Workers = {w1}
    Users = {u1}
    Locations = {"/sensitive", "/api/data", "/admin", "/api/risk-score"}
    MaxLogins = 1
    EngineFaults = {"unreachable", "no_result", "bad_json"}
    MaxPostureAge = 0
    StartTime = 2
    MaxTime = 4
    ReauthWindow = 0
    StaleAge = 0
    VeryStaleAge = 1
    RISK_THRESHOLD = 70
    HalfHour = 0
    Hour = 1
INVARIANTS
    TypeOK
    GatewayTypeOK
    GrantJustified
    ReasonMatchesDecision
    ReasonIsTrue
    ServedWithinClearance
    LabelCoversContent
    StepUpMeansChange
