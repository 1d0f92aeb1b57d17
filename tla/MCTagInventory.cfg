SPECIFICATION Spec
CONSTANTS
    Tags = {"t1", "t2", "t3", "card"}
    AipOf <- MCAipOf
    UidLen <- MCUidLen
    MaxBare = 2
    MaxUids = 2
    RecSize = 4
    MinBuf = 3
    BufSizes = {2, 3, 4}
INVARIANTS InvTypeOK RecordsWereReported UserDataOfTag ReportsStored LengthCounts
PROPERTY InventoryReturns
