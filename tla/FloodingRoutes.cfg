CONSTANTS
    a = a
    b = b
    c = c
    d = d
    e = e
    k1 = k1
    k2 = k2
    None = None
    Blank = Blank
    Node = {a, b, c, d, e}
    Link <- HouseWithTail
    Flow = {1}
    Startable <- AnySearch
    Keyword = {k1}
    MaxTTL = 5
    TableSize = 2
    Indexable <- TwoHolders
    Lossy = FALSE
    Restartable = {}
SPECIFICATION FairSpec
CHECK_DEADLOCK FALSE
INVARIANTS RoutesLeadHome ResponsesGetHome AnswerOnce
PROPERTIES ProcessedOnce SearchComplete
