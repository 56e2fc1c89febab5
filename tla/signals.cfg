SPECIFICATION Spec
CONSTANTS
  t0 = t0
  s1 = s1
  s2 = s2
  te = te
  NULL = NULL
  Main = t0
  NSems = 1
  MaxProcs = 4
  List = {"all", "run", "block", "wait"}
  Pcb <- Waiters
  Boot <- BootWaiters
  Prog <- MCSignals
  InitVal <- MCInitVal
  TickAt <- Everywhere
  TickInSpin = TRUE
INVARIANTS
  SpuriousWakesBounded
CHECK_DEADLOCK FALSE
