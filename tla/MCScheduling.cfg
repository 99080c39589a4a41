SPECIFICATION Spec
CONSTANTS
    Pids = {1, 2, 3, 4}
    PIT = PIT
    SysModuleId = {PIT, Framebuffer}
    Unknown = Unknown
    NullFunc = NullFunc
    DoNothing = DoNothing
    CtxtSwitchInterval = 2
    Contexts = 3
    BootDrivers = {0, 1}
    InitLists <- MCInitLists
INVARIANTS
    SavedContexts
    AddressSpaceOfCode
    Acknowledged
    SwitchPanicsOnlyForDrivers
    FuncBelongsToOwner
PROPERTIES
    NoTakeover
    ImplementsSysModules
    TakesTurns
    InitListLoaded
CHECK_DEADLOCK FALSE
