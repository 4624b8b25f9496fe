SPECIFICATION Spec
CONSTANTS
    t1 = t1
    t2 = t2
    Tokens = {t1, t2}
    NoToken = NoToken
    AppOf <- OwnApps
    MaxSessions = 2
    IdleLimit = 1
    Library = {"CheckAll", "AwakeAnco", "RestrictAncoApp", "ActivateAll", "DeactivateAll"}
    MayFail = {"deactivateAll", "deleteList", "screenQuery", "subscribe"}
    Disturbances = {"crash", "screen", "death"}
INVARIANTS OrphanKioskUnannounced
PROPERTIES KeepsProtocol
CHECK_DEADLOCK FALSE
