SPECIFICATION Spec
CONSTANTS
  Depth = 3
  READ_MAILBOX_TIMEOUT = 0
  Invalid = Invalid
  Native <- MCNative
  Requested <- MCRequested
  Base = 1000000
  Cursors = {0, 60, 9999}
INVARIANTS BufferNotShared SuccessMeansGranted DrawsBounded
PROPERTIES InitReturns
CHECK_DEADLOCK FALSE
