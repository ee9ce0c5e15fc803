\* One game, a second connection of p1 after a reload, every database call may raise.
CONSTANTS
    Player1 = p1
    Player2 = p2
    None = None
    s1 = s1
    s2 = s2
    s3 = s3
    Socket = {s1, s2, s3}
    Owner <- MCOwner
    GoogleUsers = {p1, p2}
    DbMayFail = TRUE
    OneTab = TRUE
    MaxGames = 1
    MaxRuns = 2
    MaxInFlight = 1
    MaxReveals = 0
SYMMETRY MCSymmetry
SPECIFICATION Spec
INVARIANTS ResultOnce VerdictAgrees
\* Everybody may leave: the match then has nothing left to do.
CHECK_DEADLOCK FALSE
