SPECIFICATION Spec
CONSTANTS
    Pids = {1, 2, 3, 4}
    PIT = PIT
    SysModuleId = {PIT, Framebuffer}
    Unknown = Unknown
    NullFunc = NullFunc
    DoNothing = DoNothing
    CtxtSwitchInterval = 2
    Contexts = 3
    BootDrivers = {0}
    InitLists <- MCTwoProcesses
INVARIANTS
    ProcessMustExist
CHECK_DEADLOCK FALSE
