CONSTANTS
  GPR <- MCGPR
  Inst <- GprInst
  NoInst = NoInst
  Latency = {1, 3}
  forwarding = TRUE
  dcache_enable = TRUE
SPECIFICATION FairSpec
CHECK_DEADLOCK FALSE
INVARIANTS TypeOK StageShape LockCount ForwardMarks IssueRule
PROPERTIES InOrder InOrderLive
