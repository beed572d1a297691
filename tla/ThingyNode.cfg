CONSTANTS
    NODE_ID = n2
    Peers = {n1}
    SEQ_MOD = 1
    FLOOD_QUEUE_SIZE = 1
    SEEN_SENSOR_CACHE_SIZE = 1
    SEEN_COMMAND_CACHE_SIZE = 1
    CMD_SLEEP = sleep
    CMD_MEASURE = measure
    Cmds = {sleep, measure}
    MAX_ERRORS = 1
SPECIFICATION FairSpec
INVARIANTS TypeOK SensorsAsBelieved LeaksAtMostOne ScanTracked
PROPERTIES ImplementsMeshNode SettlesAwake 
