SPECIFICATION Spec
CONSTANTS
    p1 = p1
    p2 = p2
    p3 = p3
    i1 = i1
    i2 = i2
    i3 = i3
    i4 = i4
    Proc <- MCProc
    Inode <- MCInode
    Overlap = TRUE
    Crashes = FALSE
INVARIANTS MutualExclusion
