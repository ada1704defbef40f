CONSTANTS
  Models = {TRUE, FALSE}
  Programs <- MCPrograms
  WordMod = 2
  HANDLER <- MCHandler
SPECIFICATION HistoryFairSpec
CHECK_DEADLOCK FALSE
INVARIANTS CpuTypeOK OwnAnswer OnceOnly Responsive
PROPERTIES Restartable Served
