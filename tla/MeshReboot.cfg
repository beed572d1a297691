\* The mobile node reboots once; no samples.
CONSTANTS
    Nodes = {n1, n2}
    Samplers = {}
    SEQ_MOD = 4
    FLOOD_QUEUE_SIZE = 1
    SEEN_SENSOR_CACHE_SIZE = 1
    SEEN_COMMAND_CACHE_SIZE = 4
    CMD_BROADCAST_COUNT = 1
    CMD_SLEEP = sleep
    CMD_MEASURE = measure
    MAX_SAMPLES = 0
    MAX_ORDERS = 4
    MAX_MOBILE_REBOOTS = 1
    MAX_NODE_REBOOTS = 0
SPECIFICATION Spec
PROPERTIES WakeIsObeyed
CHECK_DEADLOCK FALSE
