CONSTANTS
    web = web
    cli1 = cli1
    f1 = f1
    f2 = f2
    None = None
    Blank = Blank
    Client = {cli1}
    Requests <- OneClient
    Flow = {f1, f2}
    TableSize = 2
    MaxAnswers = 1
SPECIFICATION FairSpec
CHECK_DEADLOCK FALSE
INVARIANTS ClientThere
