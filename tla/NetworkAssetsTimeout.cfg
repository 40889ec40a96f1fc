SPECIFICATION Spec
CONSTANTS
    Procs = {p1, p2}
    Inodes = {1, 2, 3}
    NoInode = NoInode
    CanTimeOut = TRUE
    BaseAsset <- SameAsset
    UpFields = {1, 2, 3, 4}
    LocalUri = TRUE
    MaxIncrements = 4
    CanCrash = FALSE
    MaxRounds = 1
CHECK_DEADLOCK FALSE
INVARIANT HeldAssetsDisjoint
