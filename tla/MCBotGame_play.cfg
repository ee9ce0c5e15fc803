\* Every board of 3 x 4 cells with two mines, bots with and without mistakes.
CONSTANTS
    Rows = 3
    Cols = 4
    MineCount = 2
    Start <- MCStart
SPECIFICATION FairSpec
INVARIANTS WonIsTrue NoGuessNeeded PartitionAgrees
PROPERTIES GameEnds
CHECK_DEADLOCK FALSE
