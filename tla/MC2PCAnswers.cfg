CONSTANTS
    k1 = k1
    k2 = k2
    v1 = v1
    v2 = v2
    i1 = i1
    i2 = i2
    i3 = i3
    Nil = Nil
    Keys <- OneKey
    Values <- OneValue
    Ids <- TwoIds
    NumParticipants = 2
    ResendLimit = 1
    IdsMayRepeat = FALSE
    MaxTxns = 2
    MaxCoordinatorCrashes = 1
    MaxCrashes = 1
    MaxRestarts = 1
    MaxBreaks = 1
    MaxLinksDown = 0
    MaxLate = 1
    MaxFaults = 2
SPECIFICATION FairSpec
PROPERTY EveryRequestAnswered OnlyCommittedWritesTakeEffect
