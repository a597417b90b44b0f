CONSTANTS
    Box = 2
    AtMost = 1
    AtLeast = 5
    Puzzles <- SmallPuzzles
SPECIFICATION FairSpec
INVARIANTS TypeOK CacheMatchesBoard SpacesFollowTheFrames LinksHoldWhatIsLeft FailureLeavesNoTrace
PROPERTY AnswersAreRight
