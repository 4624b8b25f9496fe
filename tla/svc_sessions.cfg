SPECIFICATION Spec
CONSTANTS
    t1 = t1
    t2 = t2
    Tokens = {t1, t2}
    NoToken = NoToken
    AppOf <- OwnApps
    MaxSessions = 3
    IdleLimit = 1
    Library = {"CheckAll", "AwakeAnco", "RestrictAncoApp", "ActivateAll", "DeactivateAll"}
    MayFail = {"dialog", "dialogError", "env", "addObserver", "activateAll"}
    Disturbances = {"anomaly"}
INVARIANTS TypeOK RegistryNamesCaller ActiveByConsent NothingLeftBehind UnloadsIdle
PROPERTIES KeepsProtocol
CHECK_DEADLOCK FALSE
