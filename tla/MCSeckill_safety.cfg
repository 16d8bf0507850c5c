SPECIFICATION Spec
CONSTANTS
    Users = {u1, u2}
    Vouchers = {v1, v2}
    Instances = {i1, i2}
    Scarce = v1
    ScarceStock = 1
    OtherStock = 2
    Stock <- MCStock
    MaxFaults = 2
    NoLock = NoLock
    Nobody = Nobody
SYMMETRY Symmetry
INVARIANTS TypeOK OneOrderPerUser StockConserved LeaksOnlyOnFailed
PROPERTIES ReleasesOwnLock LostForAReason RefinesFlashSale
