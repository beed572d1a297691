\* Both headers agree: what the one-record mailbox does to a burst of records.
CONSTANTS
    Nodes = {n1}
    Readings <- MCTwoReadings
    NODE_BUFFER_MAX = 1
    ENV_NODE_NAME_LEN = 9
    PEER_NAME_LEN = 9
    MSGQ_DEPTH = 2
    CHIRP_COUNT = 1
    ShellCommands = {}
    ScanErrors = FALSE
SPECIFICATION Spec
INVARIANTS EveryRecordReported
