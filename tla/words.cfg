CONSTANTS
  Bits = 5
  KB = 4
  Args <- MCArgs
  MaxOptions = 3
  DefaultLine = 2
  XLEN = 4
  AddrBits = 1
  Pc = 4
  Fields <- MCFields
  Others <- MCOthers
SPECIFICATION MCSpec
CHECK_DEADLOCK FALSE
INVARIANTS Geometry CrashOnlyOnWrap ExecutesRight
