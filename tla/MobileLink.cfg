\* Two sensor nodes and one slot, so the second node heard has to do without; connections,
\* commands and the advertising they share, at the source's queue depth and repetitions.
CONSTANTS
    Nodes = {n1, n2}
    SEQ_MOD = 3
    SNIFFER_MAX_NODES = 1
    NODE_TIMEOUT = 1
    MAX_DELAY = 0
    ADV_MSGQ_SIZE = 1
    CMD_MSGQ_SIZE = 4
    CMD_BROADCAST_COUNT = 3
    Commands = {sleep}
    ScanErrors = FALSE
    BroadcastErrors = FALSE
    MAX_LAP = 0
    MAX_NOW = 1
SPECIFICATION FairSpec
INVARIANTS TypeOK NeverStranded SniffingSurvives BroadcastStopsItsOwn
PROPERTIES Readvertises
