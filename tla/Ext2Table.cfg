CONSTANTS
    Inode = {i1, i2}
    i1 = i1
    i2 = i2
    MaxChange = 2
SPECIFICATION TableSpec
INVARIANT DiskCopyUpdated
