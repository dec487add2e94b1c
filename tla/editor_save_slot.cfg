SPECIFICATION Spec
CONSTANTS
    Paths = {"a", "b", "c"}
    InitialTabs <- ThreeTabs
    MaxEdits = 1
    MaxTroubles = 0
    MaxRequests = 2
    MaxOpens = 0
INVARIANTS
    SavedTabLosesNothing
CHECK_DEADLOCK FALSE
