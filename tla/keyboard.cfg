SPECIFICATION FairSpec
CONSTANTS
  Key = {k, tilde}
  LF = LF
  NUL = NUL
  RepLen = 2
  Leftover = tilde
  BufLen = 3
  LineLen = 2
  MaxTyped = 3
  Patient = TRUE
INVARIANTS
  TypeOK
  OneTransfer
  PollStartsFresh
  KnowsDevice
  FirstReportAtMost
  AtMostOnePast
PROPERTIES
  EnumEnds
  EnterReturns
CHECK_DEADLOCK FALSE
