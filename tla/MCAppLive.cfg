SPECIFICATION AppLiveSpec
CONSTANTS
    Users = {u1, u2}
    Vouchers = {v1, v2}
    Instances = {i1, i2}
    Scarce = v1
    ScarceStock = 1
    OtherStock = 1
    Stock <- MCStock
    MaxFaults = 1
    NoLock = NoLock
    Nobody = Nobody
    ScrollBlogs = {1, 2, 3, 4}
    PageSize = 2
    MaxTime = 2
    MaxTies = 3
    Readers = {r1, r2}
    Writers = {w1, w2}
    MaxVersion = 2
    MaxShopFaults = 2
    NoShop = NoShop
    Absent = Absent
PROPERTIES
    AdmittedSettled
    ScrollEnds
    EventuallyFresh
