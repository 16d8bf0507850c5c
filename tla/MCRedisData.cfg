SPECIFICATION RedisDataSpec
CONSTANTS
    na = na
    nb = nb
    el = el
    str = str
    cw = cw
    ct = ct
    cb1 = cb1
    cb2 = cb2
    Names = {na, nb}
    Val = {el}
    Str = str
    Connections = {cw, ct, cb1, cb2}
    Transactors = {ct}
    Blockers = {cb1, cb2}
    Cmds <- MCCmds
    TxCmds <- MCTxCmds
    Watches <- MCWatches
    MaxQueue = 1
    MaxElements = 2
    MaxTtl = 1
    gg = gg
    ca = ca
    cb = cb
    Nobody = Nobody
    Group = {gg}
    Consumer = {ca, cb}
    XCmds <- MCXCmds
    XTxs <- MCXTxs
    XReads <- MCXReads
    NodeSize <- MCNodeSize
    MaxId = 3
    MaxCount = 2
    MaxTogether = 3
CONSTRAINT Together
INVARIANTS
    RedisDataTypeOK
    NobodyWaitsOnData
    ReplicaConverges
    PendingListsAgree
    StreamReplicaFollows
PROPERTIES
    StaleExecWritesNothing
    ServedInOrder
    GroupHandsOutOnce
    NewsWakesReaders
