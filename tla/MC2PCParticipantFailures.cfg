CONSTANTS
    k1 = k1
    k2 = k2
    v1 = v1
    v2 = v2
    i1 = i1
    i2 = i2
    i3 = i3
    Nil = Nil
    Keys <- TwoKeys
    Values <- TwoValues
    Ids <- TwoIds
    NumParticipants = 2
    ResendLimit = 3
    IdsMayRepeat = TRUE
    MaxTxns = 2
    MaxCoordinatorCrashes = 0
    MaxCrashes = 1
    MaxRestarts = 0
    MaxBreaks = 1
    MaxLinksDown = 2
    MaxLate = 0
    MaxFaults = 9
SPECIFICATION Spec
SYMMETRY Symmetry
INVARIANTS TypeOK CountersMatchSockets OnlyDecidedWritesCommit ConvergedWhenIdle
PROPERTY ClientSeesOneStore
