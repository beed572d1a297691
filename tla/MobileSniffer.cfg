\* Two nodes with two slots; a lap has two numbers and the counter wraps or
\* restarts once; a packet may arrive one tick late, a silent node is forgotten
\* after two.
CONSTANTS
    Nodes = {n1, n2}
    SEQ_MOD = 2
    SNIFFER_MAX_NODES = 2
    NODE_TIMEOUT = 2
    MAX_DELAY = 1
    ADV_MSGQ_SIZE = 1
    CMD_MSGQ_SIZE = 1
    CMD_BROADCAST_COUNT = 1
    Commands = {}
    ScanErrors = FALSE
    BroadcastErrors = FALSE
    MAX_LAP = 1
    MAX_NOW = 3
SYMMETRY MCSymmetry
CONSTRAINT MCSniffing
SPECIFICATION Spec
INVARIANTS OneRecordPerNode OnlyNewsForwarded WindowMatchesTable
PROPERTIES ImplementsNewsFeed
