SPECIFICATION Spec
CONSTANTS
    Procs = {p1, p2, p3}
    Inodes = {1}
    NoInode = NoInode
    CanTimeOut = FALSE
    BaseAsset <- SameAsset
    UpFields = {1, 2, 3, 4}
    LocalUri = TRUE
    MaxIncrements = 4
    CanCrash = TRUE
    MaxRounds = 1
SYMMETRY Symmetric
CHECK_DEADLOCK FALSE
INVARIANTS AssetTypeOK HeldAssetsDisjoint HeldAssetsRecorded AssetsFileIsSound FreshNetworksFree
PROPERTY ImplementsPool
