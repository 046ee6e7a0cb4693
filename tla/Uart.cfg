SPECIFICATION Spec
CONSTANTS
  Bytes = {a, b}
  FifoDepth = 2
  WordSize = 16
  Reinit = TRUE
  MaxWrite = 2
  MaxRead = 2
  MaxOut = 4
  MaxIn = 3
INVARIANTS TypeOK SentInOrder ReadInOrder
PROPERTIES CallsReturn
CHECK_DEADLOCK FALSE
