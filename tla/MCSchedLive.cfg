SPECIFICATION FairSpec
CONSTANTS
    t1 = t1  t2 = t2  t3 = t3  t4 = t4
    i1 = i1  i2 = i2  i3 = i3
    None = None
    Idle <- Idles
    CPU = {1, 2}
    Task <- Tasks3
    Born <- Tasks3
    Queue <- NoQueue
    Worlds <- Calm
PROPERTIES
    ReadyEventuallyRuns
