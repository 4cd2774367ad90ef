SPECIFICATION FairSpec
CONSTANTS
    Threads = {t1, t2, t3}
    NoThread = NoThread
    MaxPushes = 3
INVARIANTS InOrder EnoughAwake EndMeansDrained
PROPERTY WaitersServed
CHECK_DEADLOCK FALSE
