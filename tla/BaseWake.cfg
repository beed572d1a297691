\* The shell only wakes the mesh; the buzzer's bounds are cut to the smallest
\* that still let commands queue up behind a chirp and behind the alarm.
CONSTANTS
    Nodes = {n1}
    Readings <- MCTwoReadings
    NODE_BUFFER_MAX = 1
    ENV_NODE_NAME_LEN = 9
    PEER_NAME_LEN = 9
    MSGQ_DEPTH = 2
    CHIRP_COUNT = 1
    ShellCommands = {"wake"}
    ScanErrors = FALSE
SPECIFICATION FairSpec
INVARIANTS AlarmMatchesClassification
PROPERTIES ReturnsToScan PoorIsHeard GoodIsSilent
