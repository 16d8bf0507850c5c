SPECIFICATION RedisCoreSpec
CONSTANTS
    Db = {0, 1}
    AfCmds <- MCAfCmds
    NoDb = NoDb
    Policies = {"always", "everysec"}
    ca = ca
    cb = cb
    AfClients = {ca, cb}
    NoFsyncs = {TRUE, FALSE}
    IoThreads = TRUE
    MaxWrites <- MCMaxWrites
    MaxShort = 1
    MaxJobs = 2
    pa = pa
    pb = pb
    pc = pc
    PsServer = {pa, pb, pc}
    NoServer = NoServer
    PsDb = {1}
    Topologies <- MCTopologies
    FirstIds <- MCFirstIds
    BacklogSize = 1
    MaxStream = 2
    MaxOff = 2
    MaxOps = 2
SYMMETRY CoreSymm
INVARIANTS
    AofReplayGivesData
    AofAckedIsSynced
    StreamCompletesReplica
    OneHistoryPerId
PROPERTIES
    FailoverKeepsWrites
CHECK_DEADLOCK FALSE
