SPECIFICATION ThreadFairSpec
CONSTANTS
  t0 = t0
  t1 = t1
  t2 = t2
  te = te
  NULL = NULL
  Main = t0
  NSems = 1
  MaxProcs = 4
  List = {"all", "run", "block", "wait"}
  Pcb <- MCPcb
  Boot <- MCBoot
  Prog <- MCOnce
  InitVal <- MCInitVal
  TickAt <- BeforeSleep
  TickInSpin = FALSE
PROPERTIES
  FreeLockWakesWaiter
CHECK_DEADLOCK FALSE
