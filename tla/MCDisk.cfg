SPECIFICATION Spec
CONSTANTS
    Procs = {p1}
    Machines <- MCMachines
    Paths <- MCPaths
    ReadLens = {1, 4, 5}
    WriteLens = {2, 4}
    BaseMax = 2
    ExtMax = 1
    MaxOpens = 3
    MaxWrites = 1
    MaxChain = 4
INVARIANTS
    PathsResolve
    ReadAgrees
    BlocksReturned
PROPERTIES
    WritesConfined
    LoaderDone
CHECK_DEADLOCK FALSE
