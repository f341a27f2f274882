SPECIFICATION FilesSpec
CONSTANTS
    BUFSIZE = 3
    Lens <- Mixed
    MinCalls = 0
    MaxCalls = 2
    Task = {t1, t2}
    t1 = t1
    t2 = t2
    NoTask = NoTask
    Groups = 2
    PerGroup = 2
    FirstData = 1
    File = {f1, f2}
    f1 = f1
    f2 = f2
    Blocks = 9
    NDir = 1
    PerBlock = 2
    BlockSize = 2
    Starts = {0, 3, 8}
    Lengths = {1, 12}
    Sizes = {1, 3, 5, 11}
    MaxFaults = 1
    MapCalls = 1
    Name = {"a", "b", "c"}
    BlockWords = 6
    MaxBlocks = 2
    Inodes = 3
    OnTty = {p1, p2}
    p1 = p1
    p2 = p2
    RingSize = 3
    NTtys = 2
    BufSize = 3
    LineMax = 3
    QueueSize = 2
    MaxOut = 3
    ReadSizes = {1, 4}
    Creator = {}
    RenameOver = TRUE
    NDisks = 3
    LETTERS = 2
    SAFETY = 3
    W32 = 16
    Positions = {0, 1, 2}
    Counts = {1, 2}
    Openers = {o1}
    o1 = o1
    MaxScans = 2
    MaxMounts = 1
    Rewritten = {0}
    SMALL = 8
    SECTOR = 4
    INODE = 1
    DENSITY = 16
    DESC = 2
    ENTRY = 1
    MAX16 = 511
    FsW32 = 1024
    W64 = 65536
    LIMIT = 1024
    Devices = {0, 1, 129, 130, 258, 387, 514, 1025, 2048, 2049}
INVARIANTS
    NamesUnique
CHECK_DEADLOCK FALSE
