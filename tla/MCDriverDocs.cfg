SPECIFICATION SysSpec
CONSTANTS
    Trees = {}
    QueryPaths = {}
    NameLen <- MCNameLen
    FileSize <- MCFileSize
    Base = 4096
    None = None
    Stray = Stray
    Plans <- MCDocumentedPlans
    NoPlan = NoPlan
    DrvNames = {"fat.drv", "x.drv"}
    LiveNumbers = {0, 1, 2, 4, 17, 21}
    Functions = {"f", "g"}
    NoFunction = NoFunction
    MaxLive = 3
INVARIANT DocumentedDriversStart
CHECK_DEADLOCK FALSE
