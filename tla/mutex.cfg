SPECIFICATION FairSpec
CONSTANTS
  t0 = t0
  t1 = t1
  t2 = t2
  te = te
  NULL = NULL
  Main = t0
  NSems = 1
  MaxProcs = 4
  List = {"all", "run", "block", "wait"}
  Pcb <- MCPcb
  Boot <- MCBoot
  Prog <- MCProg
  InitVal <- MCInitVal
  TickAt <- Everywhere
  TickInSpin = TRUE
INVARIANTS
  TypeOK
  MutualExclusion
  LockerIsOwner
  NoThreadLost
  QueueConsistent
  IrqsOnInThreads
  NullOnlyInUnlock
PROPERTIES
  LockSpec
  RoundRobin
CHECK_DEADLOCK FALSE
