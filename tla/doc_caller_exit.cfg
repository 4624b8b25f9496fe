SPECIFICATION Spec
CONSTANTS
    t1 = t1
    t2 = t2
    Tokens = {t1, t2}
    NoToken = NoToken
    AppOf <- SameApp
    MaxSessions = 1
    IdleLimit = 1
    Library = {"CheckAll", "AwakeAnco", "RestrictAncoApp", "ActivateAll", "DeactivateAll"}
    MayFail = {}
    Disturbances = {"death"}
PROPERTIES DiesWithItsCaller
CHECK_DEADLOCK FALSE
