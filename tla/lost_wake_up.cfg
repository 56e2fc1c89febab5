SPECIFICATION ThreadFairSpec
CONSTANTS
  t0 = t0
  s1 = s1
  s2 = s2
  te = te
  NULL = NULL
  Main = t0
  NSems = 2
  MaxProcs = 4
  List = {"all", "run", "block", "wait"}
  Pcb <- MCPcb
  Boot <- MCBoot
  Prog <- MCProg
  InitVal <- MCInitVal
  TickAt <- Everywhere
  TickInSpin = FALSE
PROPERTIES
  Synch2Finishes
CHECK_DEADLOCK FALSE
