SPECIFICATION Spec
CONSTANTS
  WordSize = 8
  Ntimes = 3
  BlinkDelay = 3
  PanicDelay = 2
  MaxLag = 2
  Fsel1 = {0, 147456, 262144, 409600, 538968068}
  Pud = {0, 1, 2}
  Pudclk0 = {0, 65536, 49152, 538968216, 538968212}
INVARIANTS TypeOK BlinkEndsDark
PROPERTIES SleepsAsAsked MainOrFlashing
