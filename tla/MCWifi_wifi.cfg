SPECIFICATION Spec
CONSTANTS
    Ssids = {garden, house}
    Ids = {0, 1, 2, 3}
    FirstNetworks = {0, 1}
    MaxAttempts = 2
    MaxFailures = 1
    MaxCrashes = 1
CHECK_DEADLOCK FALSE
INVARIANT WifiTypeOK
INVARIANT HomeIsBack
INVARIANT NothingLeftBehind
INVARIANT RestartFindsNetwork
PROPERTY OthersStay
