CONSTANTS
  TLB_ENTRY = 3
  PPAGE_SH = 1
  PAGESHIFT_MAX = 3
  KSEG0_MIN = 32
  KSEG2_MIN = 48
  ASID = {1, 2}
  CountMod = 64
  UserPage <- MCUserPage
  Ops <- MCOps
  Period = 10
  TicksPerInst = {1, 2, 3}
  MaxMasked = 3
SPECIFICATION MCSpec
INVARIANTS Cp0TypeOK Coherent NextTick
PROPERTIES WiredKept Served
