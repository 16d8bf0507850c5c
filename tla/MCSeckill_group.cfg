SPECIFICATION Spec
CONSTANTS
    Users = {u1}
    Vouchers = {v1}
    Instances = {i1}
    Scarce = v1
    ScarceStock = 1
    OtherStock = 1
    Stock <- MCStock
    MaxFaults = 0
    NoLock = NoLock
    Nobody = Nobody
INVARIANTS ScriptCreatesGroup
