SPECIFICATION FairSpec
CONSTANTS
  Channels = {0, 1}
  Masks <- MCMasks
  SIO_POLL_CYCLE = 2
  MaxTyped = 2
INVARIANTS InterruptTypeOK LineFollows RequestFollows InSequence
PROPERTY Delivered
CHECK_DEADLOCK FALSE
