SPECIFICATION Spec
CONSTANTS
  WordSize = 8
  Ntimes = 1
  BlinkDelay = 1
  PanicDelay = 1
  MaxLag = 1
  Fsel1 = {147456}
  Pud = {0}
  Pudclk0 = {0}
INVARIANTS LedConfigured
