CONSTANTS
    a = a
    b = b
    u1 = u1
    u2 = u2
    u3 = u3
    u4 = u4
    Node = {a, b}
    Url = {u1, u2, u3, u4}
    Links <- SmallWeb
    Words <- SmallWords
    Length <- Lengths
    Addable = {u1}
    Restartable = {a}
    MaximalSize = 7
SPECIFICATION FairSpec
CHECK_DEADLOCK FALSE
INVARIANTS TypeOK IndexedNearby NoUrlTwice RepliesRight
PROPERTIES CrawlEnds Findable
