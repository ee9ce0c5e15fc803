\* Is a bot that accepted an invite kept from the queue?
CONSTANTS
    a = a
    b = b
    x = x
    y = y
    None = None
    Human = {a, b}
    Bot = {x}
    Rating <- MCRating
    BaseRange = 1
    RangeStep = 0
    MaxRange = 1
    MaxWait = 2
    InjectAfter = 1
    MaxMatches = 2
    MaxInvites = 1
    MaxAsks = 2
SPECIFICATION BotSpec
PROPERTIES BotNotShared
CHECK_DEADLOCK FALSE
