SPECIFICATION SystemSpec
CONSTANTS
    t1 = t1
    Tokens = {t1}
    NoToken = NoToken
    AppOf <- OneApp
    MaxSessions = 1
    IdleLimit = 1
    Library = {"CheckAll", "AwakeAnco", "RestrictAncoApp", "ActivateAll", "DeactivateAll"}
    MayFail = {}
    Disturbances = {}
PROPERTIES SystemEventsEndSession
CHECK_DEADLOCK FALSE
