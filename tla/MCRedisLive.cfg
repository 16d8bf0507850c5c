SPECIFICATION RedisLiveSpec
CONSTANTS
    pa = pa
    pb = pb
    pc = pc
    PsServer = {pa, pb, pc}
    NoServer = NoServer
    PsDb = {1}
    Topologies <- MCTopologies
    FirstIds <- MCFirstIds
    BacklogSize = 2
    MaxStream = 1
    MaxOff = 3
    MaxOps = 1
    s1 = s1
    s2 = s2
    s3 = s3
    sm = sm
    k1 = k1
    k2 = k2
    SnSentinel = {s1, s2, s3}
    SnServer = {sm, k1, k2}
    FirstMaster = sm
    Nobody = Nobody
    Quorum = 2
    ParallelSyncs = 1
    MaxEpoch = 1
    MaxFaults = 1
    NoNode = NoNode
    ClInstances <- MCClFair
    d1 = d1
    d2 = d2
    d3 = d3
    d4 = d4
    d5 = d5
    DictKey = {d1, d2, d3, d4, d5}
    Hash <- MCHash
    Bits = 4
    InitialSize = 4
    InitSizes = {4, 8, 16}
    EmptyVisits = 3
    MinFill = 10
    ForceRatio = 5
INVARIANT RedisLiveTypeOK
PROPERTIES
    DictWalksAreComplete
    ReplicasCatchUp
    EveryoneFollowsMaster
    SlotsSettle
CHECK_DEADLOCK FALSE
