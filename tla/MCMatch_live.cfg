\* One connection per player, two games, the database works, the server's threads run.
CONSTANTS
    Player1 = p1
    Player2 = p2
    None = None
    s1 = s1
    s2 = s2
    s3 = s3
    Socket = {s1, s2}
    Owner <- MCOwner
    GoogleUsers = {p1, p2}
    DbMayFail = FALSE
    OneTab = TRUE
    MaxGames = 2
    MaxRuns = 2
    MaxInFlight = 2
    MaxReveals = 0
SPECIFICATION FairSpec
PROPERTIES CompletionAnswered ResultRecorded RematchStarts
\* Everybody may leave: the match then has nothing left to do.
CHECK_DEADLOCK FALSE
