CONSTANTS
  GPR <- MCGPR
  Inst <- MCInst
  NoInst = NoInst
  Latency <- MCLatency
  forwarding = TRUE
  dcache_enable = TRUE
  Geometry <- MCGeometry
  penalty = 2
  Block = {0, 1, 2}
  MaxAccess = 4
SPECIFICATION PCSpec
CHECK_DEADLOCK FALSE
INVARIANTS ProbeOnce ExactLatency
PROPERTIES IsPipeLine
