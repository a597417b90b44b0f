CONSTANTS
    k1 = k1
    k2 = k2
    v1 = v1
    v2 = v2
    i1 = i1
    i2 = i2
    i3 = i3
    Nil = Nil
    Keys <- OneKey
    Values <- OneValue
    Ids <- TwoIds
    NumParticipants = 2
    ResendLimit = 1
    IdsMayRepeat = FALSE
    MaxTxns = 1
    MaxCoordinatorCrashes = 0
    MaxCrashes = 0
    MaxRestarts = 0
    MaxBreaks = 0
    MaxLinksDown = 0
    MaxLate = 2
    MaxFaults = 9
SPECIFICATION Spec
SYMMETRY Symmetry
INVARIANTS AcknowledgedWriteIsEverywhere
