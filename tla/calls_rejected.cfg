SPECIFICATION EnvSpec
CONSTANTS
    Library = {"CheckAll", "AwakeAnco", "RestrictAncoApp", "ActivateAll"}
    Screens = {"main", "cover", "monitor"}
    BuiltIn = {"main", "cover"}
    MaxCallbacks = 3
    MaxNotices = 1
    MayFail = {"addObserver", "addListener", "removeListener", "activateAll", "getAllScreens", "getAdmins", "monitor", "exitKiosk"}
INVARIANTS NoCallLetThrough LockdownComplete NothingOverlooked
CHECK_DEADLOCK FALSE
