SPECIFICATION Spec
CONSTANTS
    Paths = {"a", "b"}
    InitialTabs <- OneTab
    MaxEdits = 1
    MaxTroubles = 1
    MaxRequests = 1
    MaxOpens = 1
INVARIANTS
    TypeOK
    CleanIsOnDisk
    NoKnownEditIsLost
    InsuredEditsSurvive
    
    
PROPERTIES
    CloseAllIsAnswered
CHECK_DEADLOCK FALSE
