SPECIFICATION FairSpec
CONSTANTS
    Task = {t1, t2, t3}
    None = None
CHECK_DEADLOCK FALSE
PROPERTIES
    WokenEventuallyHolds
