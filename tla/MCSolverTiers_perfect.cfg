\* One board that the generator accepts for the perfect tier.
CONSTANTS
    Rows = 4
    Cols = 5
    MineCount = 5
    Start <- MCLowerStart
    Boards <- MCOneBoard
    Tiers = {"perfect"}
SPECIFICATION Spec
INVARIANTS AcceptedNeedsNoGuess
CHECK_DEADLOCK FALSE
