\* Three nodes and room for two: the window buffer overwrites, fills and drops.
CONSTANTS
    Nodes = {n1, n2, n3}
    Readings <- MCTwoReadings
    NODE_BUFFER_MAX = 2
    ENV_NODE_NAME_LEN = 9
    PEER_NAME_LEN = 9
    MSGQ_DEPTH = 1
    CHIRP_COUNT = 1
    ShellCommands = {}
    ScanErrors = FALSE
SPECIFICATION Spec
INVARIANTS TypeOK BufferIsWindow
