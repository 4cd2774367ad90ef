SPECIFICATION FairSpec
CONSTANTS
    Threads = {t1, t2}
    NoThread = NoThread
    MaxPushes = 1
PROPERTY PopEndsAfterClose
CHECK_DEADLOCK FALSE
