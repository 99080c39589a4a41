SPECIFICATION SysSpec
CONSTANTS
    Trees <- MCTrees
    QueryPaths <- MCPaths
    NameLen <- MCNameLen
    FileSize <- MCFileSize
    Base = 4096
    None = None
    Stray = Stray
    Plans <- MCPlans
    NoPlan = NoPlan
    DrvNames = {"fat.drv", "x.drv"}
    LiveNumbers = {0, 1, 2, 4, 17, 21}
    Functions = {"f", "g"}
    NoFunction = NoFunction
    MaxLive = 3
INVARIANTS
    OpenAgrees
    IteratorAgrees
    
    LiveDispatch
CHECK_DEADLOCK FALSE
