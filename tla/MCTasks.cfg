SPECIFICATION TasksFairSpec
CONSTANTS
    Task = {t1, t2, t3, t4}
    None = None
    Proc = {p1, p2}
    init = init
    First = p1
\* every task may end up asleep, reaped or gone
CHECK_DEADLOCK FALSE
INVARIANTS
    TypesOK
    LockedMeansHeld
    NoSleeperStranded
    FamilyTree
PROPERTIES
    ImplementsLock
    SleepersProceed
