\* Two nodes, one of which takes more samples than a cache holds; every command fits.
CONSTANTS
    Nodes = {n1, n2}
    Samplers = {n1}
    SEQ_MOD = 2
    FLOOD_QUEUE_SIZE = 2
    SEEN_SENSOR_CACHE_SIZE = 1
    SEEN_COMMAND_CACHE_SIZE = 2
    CMD_BROADCAST_COUNT = 1
    CMD_SLEEP = sleep
    CMD_MEASURE = measure
    MAX_SAMPLES = 2
    MAX_ORDERS = 2
    MAX_MOBILE_REBOOTS = 1
    MAX_NODE_REBOOTS = 1
SPECIFICATION FairSpec
INVARIANTS TypeOK HeardIsObeyed ObeyedOnce
PROPERTIES FloodEnds NodesAreMeshNodes
CHECK_DEADLOCK FALSE
