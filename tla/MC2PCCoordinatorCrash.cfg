CONSTANTS
    k1 = k1
    k2 = k2
    v1 = v1
    v2 = v2
    i1 = i1
    i2 = i2
    i3 = i3
    Nil = Nil
    Keys <- TwoKeys
    Values <- TwoValues
    Ids <- ThreeIds
    NumParticipants = 2
    ResendLimit = 3
    IdsMayRepeat = FALSE
    MaxTxns = 3
    MaxCoordinatorCrashes = 1
    MaxCrashes = 1
    MaxRestarts = 0
    MaxBreaks = 1
    MaxLinksDown = 0
    MaxLate = 0
    MaxFaults = 9
SPECIFICATION Spec
SYMMETRY Symmetry
INVARIANTS AcknowledgedWriteIsEverywhere
PROPERTY NoInconsistencyShutdown
