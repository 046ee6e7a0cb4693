SPECIFICATION Spec
CONSTANTS
  Bytes = {a, lf, cr}
  LF = lf
  CR = cr
  Text <- MCText
  a = a
  lf = lf
  cr = cr
  FifoDepth = 2
  WordSize = 16
  MaxIn = 4
  MAX_DEVICES = 2
  UartOps = uart
  NullOps = null
  InvalidDev = none
INVARIANTS EchoConserved UsesUart
PROPERTIES Echoes
CHECK_DEADLOCK FALSE
