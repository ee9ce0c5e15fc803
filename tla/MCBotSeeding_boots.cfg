\* Two games of two humans, or of one human with two bots; the first start with
\* bots, with or without tables, or a later one; a forced seeding by hand or one
\* failure of any kind.
CONSTANTS
    h1 = h1
    h2 = h2
    b1 = b1
    b2 = b2
    g1 = g1
    g2 = g2
    None = None
    Seeder = Seeder
    Ids = {1, 2, 3, 4, 5, 6, 7, 8}
    Name = {h1, h2, b1, b2}
    Human = {h1, h2}
    Bot = {b1, b2}
    Games = {g1, g2}
    Namesakes <- MCNamesakes
    Pairings <- MCPairings
    FirstIds <- MCFirstIds
    BotOrder <- MCOrder
    Calibrated <- MCCalibrated
    Stats <- MCStats
    Databases = {"nothing", "users", "bots"}
    ManualModes = {TRUE}
    MaxRare = 1
SPECIFICATION FairSpec
INVARIANTS ToldIsApplied HeadToHeadAgrees ServedBotsExist
PROPERTIES ImplementsLedger ResultsSettle ServerComesUp
\* The games may all have ended while the server runs on.
CHECK_DEADLOCK FALSE
