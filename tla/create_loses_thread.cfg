SPECIFICATION Spec
CONSTANTS
  t0 = t0
  t1 = t1
  t2 = t2
  te = te
  NULL = NULL
  Main = t0
  NSems = 1
  MaxProcs = 4
  List = {"all", "run", "block", "wait"}
  Pcb <- WithEmpty
  Boot <- BootWithEmpty
  Prog <- MCProg
  InitVal <- MCInitVal
  TickAt <- BetweenCalls
  TickInSpin = FALSE
INVARIANTS
  NoThreadLost
CHECK_DEADLOCK FALSE
