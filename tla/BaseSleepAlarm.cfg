\* The shell only puts the mesh to sleep: after that the alarm is to be off.
CONSTANTS
    Nodes = {n1}
    Readings <- MCTwoReadings
    NODE_BUFFER_MAX = 1
    ENV_NODE_NAME_LEN = 9
    PEER_NAME_LEN = 9
    MSGQ_DEPTH = 2
    CHIRP_COUNT = 1
    ShellCommands = {"sleep"}
    ScanErrors = FALSE
SPECIFICATION Spec
INVARIANTS AlarmMatchesClassification
