\* Three users: a and b pair at once, b and c after one cycle; each may leave,
\* come back, fall silent, be told, invite another or answer an invite meanwhile.
CONSTANTS
    a = a
    b = b
    c = c
    d = d
    None = None
    Human = {a, b, c}
    Bot = {}
    Rating <- MCRating
    BaseRange = 1
    RangeStep = 1
    MaxRange = 2
    MaxWait = 1
    MaxMatches = 2
    MaxInvites = 2
    MaxAsks = 4
SPECIFICATION Spec
INVARIANTS NoMissedPair ToldIsPlayer PromiseKept
PROPERTIES MatchedArePresent AnswerIsFinal
CHECK_DEADLOCK FALSE
