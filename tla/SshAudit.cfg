SPECIFICATION FairSpec
CONSTANTS
    Accounts = {root, alice}
    Keys = {k}
    Fingerprints = {f}
    Error = Error
    Timer = timer
    Manual = {manual}
    MaxManual = 2
    MaxDeaths = 1
INVARIANTS
    TypeOK
    NewKeysAnnounced
PROPERTY
    ReportRecovers
