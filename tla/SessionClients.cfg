CONSTANTS
    web = web
    cli1 = cli1
    f1 = f1
    f2 = f2
    None = None
    Blank = Blank
    Client = {web, cli1}
    Requests <- WebAndCli
    Flow = {f1, f2}
    TableSize = 2
    MaxAnswers = 1
SPECIFICATION FairSpec
CHECK_DEADLOCK FALSE
INVARIANTS TypeOK AnswersToAsker SameIdForEveryAnswer CommandsWhole
PROPERTIES Acknowledged
