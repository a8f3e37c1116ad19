CONSTANTS
    m1 = m1
    m2 = m2
    m3 = m3
    NoRequest = NoRequest
    Message = {m1, m2, m3}
    Size <- SizesAtTheBoundary
    MaxPayload = 2
    MaxDelay = 2
    Overlap = FALSE
    Stalls = FALSE
    Reconnects = TRUE
    Others = FALSE
SPECIFICATION FairSpec
CHECK_DEADLOCK FALSE
PROPERTIES ImplementsChannel Arrives NothingLeaks
