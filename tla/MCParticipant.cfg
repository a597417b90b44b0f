CONSTANTS
    k1 = k1
    k2 = k2
    v1 = v1
    v2 = v2
    Nil = Nil
    Keys <- MCKeys
    Values <- MCValues
    Ids <- MCIds
SPECIFICATION Spec
INVARIANTS TypeOK PreparedWriteIsRecorded ResendIsHarmless
PROPERTY ImplementsPromise
CHECK_DEADLOCK FALSE
