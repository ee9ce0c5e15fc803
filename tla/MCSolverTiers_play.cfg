\* Every board of 3 x 4 cells with three mines, all three tiers.
CONSTANTS
    Rows = 3
    Cols = 4
    MineCount = 3
    Start <- MCStart
    Boards <- MCBoards
    Tiers = {"subset", "probabilistic", "perfect"}
SPECIFICATION FairSpec
INVARIANTS DeductionsSound ComponentsSeparate GroupsExact TierStrength GuessOnlyIfRejected
PROPERTIES BoardEnds
CHECK_DEADLOCK FALSE
