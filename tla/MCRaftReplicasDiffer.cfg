SPECIFICATION Spec
CONSTANTS
  w1 = w1
  w2 = w2
  Nil = Nil
  Keys <- TwoWords
  Values <- ShortValues
  NumNodes = 2
  Commands <- AllCommands
  Contacts <- AllNodes
  MayCrash <- NoNode
  MayRestart <- NoNode
  MaxTxns = 1
  MaxCrashes = 0
  MaxRestarts = 0
  MaxLate = 0
  MaxLost = 0
INVARIANT ReplicasHoldTheWrite
CHECK_DEADLOCK FALSE
