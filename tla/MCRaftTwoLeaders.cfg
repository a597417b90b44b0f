SPECIFICATION Spec
CONSTANTS
  w1 = w1
  w2 = w2
  Nil = Nil
  Keys <- TwoWords
  Values <- ShortValues
  NumNodes = 3
  Commands <- OneRead
  Contacts <- SecondNode
  MayCrash <- FirstNode
  MayRestart <- FirstNode
  MaxTxns = 1
  MaxCrashes = 1
  MaxRestarts = 1
  MaxLate = 0
  MaxLost = 0
INVARIANT OneLeader
CHECK_DEADLOCK FALSE
