SPECIFICATION MemorySpec
CONSTANTS
    Regions <- MCRegions
    KEnd = 4
    NPages = 12
    RefMax = 2
    Garbage <- MCGarbage
    MaxRun = 3
    EmptyNum = 3
    MaxSlabs = 3
    MiddleNum = 4
    Pages = 5
    Requests = {1, 2}
    Proc = {p1, p2}
    First = p1
    NFrames = 24
    Levels = 3
    Fan = 2
    Programs <- MCPrograms
    Touched = {6}
    Stored = {1}
    MaxBirths = 3
    IoPages = 4
    Unit = 4
    Bars = {0, 6, 9}
    Sizes = {2, 4}
    HEADER = 3
    PAGE = 8
    HEAP_END = 24
    Wanted = {1, 3}
INVARIANTS
    TypesOK
    CachesExact
    ScanNeverFails
    ScanFindsFirstRun
    HeapListsExact
    MappingsOwned
PROPERTIES
    HandsOutFreePages
    SlabsExact
    ImplementsHeap
    ImplementsSpaces
\* halt() stops the machine
CHECK_DEADLOCK FALSE
