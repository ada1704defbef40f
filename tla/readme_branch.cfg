CONSTANTS
  GPR <- MCGPR
  Inst <- AluBranch
  NoInst = NoInst
  Latency = {1}
  forwarding = TRUE
  dcache_enable = FALSE
SPECIFICATION Spec
CHECK_DEADLOCK FALSE
INVARIANT BranchRule
