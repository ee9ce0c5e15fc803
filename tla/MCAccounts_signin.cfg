\* Two tabs of one Google user and one of another submit names at once, with a
\* name that a bot has among them; two guests ask for a name that tabs submit too.
CONSTANTS
    t1 = t1
    t2 = t2
    t3 = t3
    g1 = g1
    g2 = g2
    ann = ann
    eve = eve
    bot = bot
    q1 = q1
    q2 = q2
    None = None
    Tab = {t1, t2, t3}
    Google = {g1, g2}
    GoogleOf <- MCGoogleOf
    Guest = {q1, q2}
    GuestName <- MCGuestName
    Name = {ann, eve, bot}
    Seeded = {bot}
    MaxTries = 4
SPECIFICATION FairSpec
INVARIANTS OneAccountEach TokensAgree TakenByOthers SharedOnlyInRace
PROPERTIES SignInEnds
\* Tabs may stop asking.
CHECK_DEADLOCK FALSE
