SPECIFICATION VfsSpec
CONSTANTS
    Tasks = {t1, t2}
    t1 = t1
    t2 = t2
    Worlds <- MCWorlds
    Fds = {0, 1}
    MaxDentries = 10
    MaxFiles = 2
    MaxDepth = 3
    MaxNodes = 3
    CacheSize = 2
    FileNames = {"a", "b"}
    MaxSlots = 2
    MaxLength = 2
SYMMETRY Symmetry
INVARIANTS
    TypesOK
    
    
    GetcwdLeadsBack
    RamfsExact
