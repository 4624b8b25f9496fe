SPECIFICATION Spec
CONSTANTS
    t1 = t1
    t2 = t2
    Tokens = {t1}
    NoToken = NoToken
    AppOf <- OwnApps
    MaxSessions = 1
    IdleLimit = 1
    Library = {"CheckAll", "AwakeAnco", "RestrictAncoApp", "ActivateAll", "DeactivateAll"}
    MayFail = {"enterKiosk"}
    Disturbances = {}
INVARIANTS NothingLeftBehind
CHECK_DEADLOCK FALSE
