SPECIFICATION DriversFairSpec
CONSTANTS
    RootPorts = 2
    Readers = {r1, r2}
    r1 = r1
    r2 = r2
    PacketSize = 2
    Transfers = {3}
    Users = {u1, u2}
    u1 = u1
    u2 = u2
    CommandSlots = 2
    Counts = {8}
INVARIANTS
    TypesOK
    RequestsSound
    HardwareSeesValid
PROPERTIES
    SubmitterReturns
\* a driver may wait for ever on hardware that failed
CHECK_DEADLOCK FALSE
