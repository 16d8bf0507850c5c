SPECIFICATION SnSpec
CONSTANTS
    s1 = s1
    s2 = s2
    s3 = s3
    sm = sm
    k1 = k1
    k2 = k2
    SnSentinel = {s1, s2, s3}
    SnServer = {sm, k1}
    FirstMaster = sm
    Nobody = Nobody
    Quorum = 2
    ParallelSyncs = 1
    MaxEpoch = 2
    MaxFaults = 1
SYMMETRY SnSymm
INVARIANT LeaderHasMajorityInEpoch
CHECK_DEADLOCK FALSE
