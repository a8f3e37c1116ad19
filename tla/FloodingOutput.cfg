CONSTANTS
    a = a
    b = b
    m1 = m1
    m2 = m2
    Message = {m1, m2}
    Flooded = {m1}
    Peer = {a, b}
    None = None
    Unsent = Unsent
    CoreQueue = 1
    MaxDelay = 2
SPECIFICATION FairSpec
CHECK_DEADLOCK FALSE
INVARIANTS TypeOK NeverStuck MemorySafe
PROPERTIES ImplementsPacketBag Drained
