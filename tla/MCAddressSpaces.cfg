SPECIFICATION Spec
CONSTANTS
    TotalFrames = 8
    KernelFrames = 1
    MaxTables = 6
    BootTables = 1
    MaxDirs = 3
    PagesPerTable = 2
    NumPdes = 7
    KernelPdes = {0}
    DriverImages <- MCDriverImages
    ProcessImages <- MCProcessImages
    HeapBase = 4
    HeapLimit = 7
    MmapSizes = {1, 2}
    StackBegin = 9
    StackPages = 2
INVARIANTS
    FramePrivate
    TablePrivate
    KernelFramesUntouched
    HeapBacked
    CallerStackValid
PROPERTIES
    PagesKept
CHECK_DEADLOCK FALSE
