\* Two games of one user in a window of one, a game of another and its retry, on a
\* full leaderboard; one request may fail.
CONSTANTS
    u1 = u1
    u2 = u2
    v1 = v1
    v2 = v2
    u = u
    v = v
    g1 = g1
    g2 = g2
    h = h
    None = None
    User = {u, v}
    Request = {u1, u2, v1, v2}
    UserOf <- MCUserOf
    GameOf <- MCGameOf
    WinTime <- MCWinTime
    Window = 1
    Limit = 2
    OldScores = {4, 9}
    MaxFailed = 1
SPECIFICATION FairSpec
INVARIANTS WinsCounted BestTimesStand WindowKeepsNewest
PROPERTIES RequestEnds
CHECK_DEADLOCK FALSE
