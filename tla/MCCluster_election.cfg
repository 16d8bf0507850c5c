SPECIFICATION ClSpec
CONSTANTS
    NoNode = NoNode
    ClInstances <- MCClLate
INVARIANTS
    OneWinnerPerEpoch
CHECK_DEADLOCK FALSE
