CONSTANTS
    x = x
    y = y
    Byte = {x, y}
    Newline = Newline
    Nul = Nul
    MaxFile = 6
    ArraySize = 3
    PointerSize = 2
    LineSize = 1
    MaxResults = 3
SPECIFICATION CliFairSpec
CHECK_DEADLOCK FALSE
INVARIANTS CliTypeOK InBounds UrlsArrive ListensOnce
PROPERTIES Answered
