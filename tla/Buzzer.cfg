\* The source's queue depth and beep count.
CONSTANTS
    MSGQ_DEPTH = 4
    CHIRP_COUNT = 3
SPECIFICATION FairSpec
INVARIANTS TypeOK ToneFollowsThread
PROPERTIES ThreadKeepsDemand AlarmSounds AlarmStops
