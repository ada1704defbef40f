CONSTANTS
  GPR <- MCGPR
  Inst <- StallInst
  NoInst = NoInst
  Latency = {1}
  forwarding = TRUE
  dcache_enable = FALSE
SPECIFICATION MCSpec
CHECK_DEADLOCK FALSE
INVARIANTS ExactStall
PROPERTIES InOrderLive
