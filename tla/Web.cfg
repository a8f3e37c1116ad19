CONSTANTS
    p1 = p1
    p2 = p2
    p3 = p3
    r1 = r1
    r2 = r2
    bad = bad
    Page = {p1, p2, p3}
    Closable = {p1}
    Result = {r1, r2, bad}
    Utf8 = {r1, r2}
    Answers <- GoodAndBad
    IdSpace = 3
    NoQuery = NoQuery
SPECIFICATION FairSpec
CHECK_DEADLOCK FALSE
INVARIANTS TypeOK OwnResults ShownInOrder
PROPERTIES ResultsShown
