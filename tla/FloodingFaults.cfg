CONSTANTS
    a = a
    b = b
    c = c
    d = d
    e = e
    k1 = k1
    k2 = k2
    None = None
    Blank = Blank
    Node = {a, b, c}
    Link <- Triangle
    Flow = {1, 2, 3}
    Startable <- OneAndTwoMore
    Keyword = {k1, k2}
    MaxTTL = 3
    TableSize = 2
    Indexable <- OneHolder
    Lossy = TRUE
    Restartable = {b}
SPECIFICATION FairSpec
CHECK_DEADLOCK FALSE
INVARIANTS TypeOK RoutingTableSound AnswersMatchSearch
PROPERTIES ImplementsSearchService Quiescence
