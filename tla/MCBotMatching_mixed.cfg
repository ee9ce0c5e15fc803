\* One human and one bot that logs on and off: an invite, the queue and both, with the
\* threads and timers running on.
CONSTANTS
    a = a
    b = b
    x = x
    y = y
    None = None
    Human = {a}
    Bot = {x}
    Rating <- MCRating
    BaseRange = 1
    RangeStep = 0
    MaxRange = 1
    MaxWait = 2
    InjectAfter = 1
    MaxMatches = 1
    MaxInvites = 1
    MaxAsks = 3
SPECIFICATION BotFairSpec
PROPERTIES BotTakesSeat
CHECK_DEADLOCK FALSE
