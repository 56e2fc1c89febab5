SPECIFICATION FairSpec
CONSTANTS
  BoxSize = 1
  MaxBlocks = 2
  Sizes = {1, 2, 3, 4, 6}
  BlockSize = 2
  MaxFaults = 2
  BaseClocks = {0}
INVARIANTS TypeOK SuccessMovesAll InitNeedsSilence PoweredWhenUsed ClockInRange
PROPERTIES Recovery
