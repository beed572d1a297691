\* Every shell command, failing scans.
CONSTANTS
    Nodes = {n1}
    Readings <- MCReadings
    NODE_BUFFER_MAX = 1
    ENV_NODE_NAME_LEN = 9
    PEER_NAME_LEN = 9
    MSGQ_DEPTH = 2
    CHIRP_COUNT = 1
    ShellCommands = {"wake", "sleep"}
    ScanErrors = TRUE
SPECIFICATION Spec
INVARIANTS LinkConsistent PoorIsSounded
PROPERTIES ImplementsBuzzer
CHECK_DEADLOCK FALSE
