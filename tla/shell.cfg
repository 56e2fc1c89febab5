SPECIFICATION Spec
CONSTANTS
  t0 = t0
  t1 = t1
  t2 = t2
  te = te
  NULL = NULL
  Main = t0
  NSems = 1
  MaxProcs = 4
  List = {"all", "run", "block", "wait"}
  Pcb <- NoEmpty
  Boot <- BootNoEmpty
  Prog <- MCProg
  InitVal <- MCInitVal
  TickAt <- BetweenCalls
  TickInSpin = TRUE
INVARIANTS
  CurrentIsLive
CHECK_DEADLOCK FALSE
