SPECIFICATION BridgeSpec
CONSTANTS
    MaxSessions = 2
    Own <- OwnName
    NotAString = NotAString
    NotAList = NotAList
    NotANumber = NotANumber
    Requests <- SomeRequests
    MaxDuration = 4
    UintRange = 16
    NapiMaxApps = 2
    AniMaxApps = 3
    MaxNamesLength = 7
INVARIANTS BridgeTypeOK RequestsAreSound HeardAsSent RecordIsArmed RecordEndsWithSession DeathOnItsWay
PROPERTIES HeardInTurn DeathIsReal DeathReported ServiceNotHeldUp
CHECK_DEADLOCK FALSE
