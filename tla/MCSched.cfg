SPECIFICATION Spec
\* a lock holder that was preempted can leave every CPU spinning; LocksSound
\* asks for a possible step where that cannot happen
CHECK_DEADLOCK FALSE
CONSTANTS
    t1 = t1  t2 = t2  t3 = t3  t4 = t4
    i1 = i1  i2 = i2  i3 = i3
    None = None
    Idle <- Idles
    CPU = {1, 2}
    Task <- Tasks4
    Born <- Tasks3
    Queue = {1}
    Worlds <- CalmAndRace
INVARIANTS
    TypeOK
    OnePlace
    ContextSaved
    LocksSound
SYMMETRY Sym
