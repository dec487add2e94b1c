SPECIFICATION Spec
CONSTANTS
    Names = {"root", "part"}
    Root = "root"
    Docs <- MCDocs
    Sources <- MCSources
    PropTexts <- MCPropTexts
    Files <- MCFiles
    NoSource <- NoSrc
    MaxPushes = 3
INVARIANTS
    TypeOK
    NewestContentWins
    DesignModeFollowsRoot
    NoPartialScriptRuns
    HelmetIsInTheHead
    HostKnowsRootProps
CHECK_DEADLOCK FALSE
