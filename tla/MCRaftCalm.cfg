SPECIFICATION FairSpec
CONSTANTS
  w1 = w1
  w2 = w2
  Nil = Nil
  Keys <- TwoWords
  Values <- ShortValues
  NumNodes = 3
  Commands <- WriteReadDelete
  Contacts <- SecondNode
  MayCrash <- AllNodes
  MayRestart <- NoNode
  MaxTxns = 2
  MaxCrashes = 1
  MaxRestarts = 0
  MaxLate = 0
  MaxLost = 0
INVARIANTS TypeOK FollowersAgree
PROPERTIES ClientSeesOneStore NodesStopOnlyWhenKilled LeaderIsElected EveryRequestEnds
CHECK_DEADLOCK FALSE
