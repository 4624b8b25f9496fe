SPECIFICATION Spec
CONSTANTS
    t1 = t1
    t2 = t2
    Tokens = {t1, t2}
    NoToken = NoToken
    AppOf <- OwnApps
    MaxSessions = 2
    IdleLimit = 1
    Library = {"CheckAll", "AwakeAnco", "RestrictAncoApp", "ActivateAll", "DeactivateAll"}
    MayFail = {"holdScreen", "restrictAnco", "addList", "enterKiosk", "addListener", "removeObserver", "setPower", "exitKiosk"}
    Disturbances = {"anco", "death"}
INVARIANTS ActiveMeansLocked DeadCallerNoticed PersistTracksActive KioskIsOnRecord
PROPERTIES EndsReleased
CHECK_DEADLOCK FALSE
