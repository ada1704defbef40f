CONSTANTS
  GPR <- MCGPR
  Inst <- LoadUse
  NoInst = NoInst
  Latency = {1}
  forwarding = TRUE
  dcache_enable = FALSE
SPECIFICATION Spec
CHECK_DEADLOCK FALSE
INVARIANT LoadRule
