SPECIFICATION LifeFairSpec
CONSTANTS
    Proc = {p1, p2}
    init = init
    First = p1
CHECK_DEADLOCK FALSE
PROPERTIES
    WaitReturns
