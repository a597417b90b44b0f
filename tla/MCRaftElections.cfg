SPECIFICATION Spec
CONSTANTS
  w1 = w1
  w2 = w2
  Nil = Nil
  Keys <- TwoWords
  Values <- ShortValues
  NumNodes = 3
  Commands <- OneRead
  Contacts <- SecondNode
  MayCrash <- AllNodes
  MayRestart <- AllNodes
  MaxTxns = 1
  MaxCrashes = 1
  MaxRestarts = 1
  MaxLate = 1
  MaxLost = 1
INVARIANTS ThreadsFitRole VotesAreAccounted OneRedirectSuffices
CHECK_DEADLOCK FALSE
