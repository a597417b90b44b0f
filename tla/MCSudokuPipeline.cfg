CONSTANTS
    f1 = f1
    f2 = f2
    Absent = Absent
    Files <- TwoFiles
    LinesOf <- OneAndTwoLines
    MaxNames = 2
    MaxSpurious = 1
    MaxSpoiled = 1
SPECIFICATION FairSpec
INVARIANTS TypeOK PrintedInOrder NoWakeupForgotten
PROPERTY EveryLineIsSolved EndsUnlessMissed
CHECK_DEADLOCK FALSE
