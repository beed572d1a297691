\* The record sizes of the two headers as they are in the repository.
CONSTANTS
    Nodes = {n1}
    Readings <- MCTwoReadings
    NODE_BUFFER_MAX = 1
    ENV_NODE_NAME_LEN = 8
    PEER_NAME_LEN = 9
    MSGQ_DEPTH = 2
    CHIRP_COUNT = 1
    ShellCommands = {}
    ScanErrors = FALSE
SPECIFICATION Spec
INVARIANTS EveryRecordReported
