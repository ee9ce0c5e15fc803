\* One connection per player, three games: the second rematch is the first that
\* a request left over from an earlier game could start.
CONSTANTS
    Player1 = p1
    Player2 = p2
    None = None
    s1 = s1
    s2 = s2
    s3 = s3
    Socket = {s1, s2}
    Owner <- MCOwner
    GoogleUsers = {p1, p2}
    DbMayFail = FALSE
    OneTab = TRUE
    MaxGames = 3
    MaxRuns = 3
    MaxInFlight = 2
    MaxReveals = 1
SPECIFICATION Spec
INVARIANTS SameBoard CountsFresh
PROPERTIES RematchNeedsConsent ImplementsGameResults
\* Everybody may leave: the match then has nothing left to do.
CHECK_DEADLOCK FALSE
