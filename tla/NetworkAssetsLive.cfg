SPECIFICATION LiveSpec
CONSTANTS
    Procs = {p1, p2}
    Inodes = {1, 2, 3}
    NoInode = NoInode
    CanTimeOut = TRUE
    BaseAsset <- SameAsset
    UpFields = {1, 2, 3, 4}
    LocalUri = FALSE
    MaxIncrements = 2
    CanCrash = FALSE
    MaxRounds = 1
CHECK_DEADLOCK FALSE
PROPERTY SessionEnds
