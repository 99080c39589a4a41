SPECIFICATION Spec
CONSTANTS
    Procs = {p1}
    Paths <- MCPaths
    LoaderPaths <- MCLoaderPaths
    Disks <- MCDisks
    MaxOpens = 4
    MaxCopies = 1
    StdinSize = 3
INVARIANTS
    DescriptorsMatch
    BlocksAccounted
    Routed
    StdinTerminated
PROPERTIES
    KeyLeavesDescriptors
    PanicsOnlyOnStale
CHECK_DEADLOCK FALSE
