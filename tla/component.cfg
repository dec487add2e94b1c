SPECIFICATION Spec
CONSTANTS
    Urls = {"lib", "jsx"}
    Jsx = {"jsx"}
    Globals = {"G", "W"}
    Exports <- MCExports
    Defines <- MCDefines
    Templates <- MCTemplates
    Classes <- MCClasses
    NoTemplate <- NoTpl
    Base <- BaseClass
    MaxPushes = 3
    MaxStates = 1
INVARIANTS
    MountsArePaired
    StateSurvivesSwaps
    
    
    NoImportIsForgotten
CHECK_DEADLOCK FALSE
