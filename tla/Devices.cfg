SPECIFICATION Spec
CONSTANTS
  MAX_DEVICES = 3
  DevOps = {uart, spi}
  NullOps = NullOps
  InvalidDev = InvalidDev
INVARIANTS TypeOK CountMatchesTable ScanInBounds ClientsServed NoNullCall
PROPERTIES CallsReturn Implements
