SPECIFICATION KsSpec
CONSTANTS
    na = na
    nb = nb
    el = el
    str = str
    cw = cw
    ct = ct
    cb1 = cb1
    cb2 = cb2
    Names = {na, nb}
    Val = {el}
    Str = str
    Connections = {cw, ct, cb1, cb2}
    Transactors = {ct}
    Blockers = {cb1, cb2}
    Cmds <- MCPauseCmds
    TxCmds <- MCTxPause
    Watches <- MCWatches
    MaxQueue = 2
    MaxElements = 2
    MaxTtl = 1
INVARIANT NothingPropagatedInPause
SYMMETRY Symm
CONSTANT MaxTogether = 3
CONSTRAINT Together
