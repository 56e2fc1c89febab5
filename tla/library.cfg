SPECIFICATION FairSpec
CONSTANTS
  Half = 512
  Times <- MCTimes
INVARIANTS DivIsQuotient TextReadsBack PercentBounds
PROPERTIES CallsReturn
