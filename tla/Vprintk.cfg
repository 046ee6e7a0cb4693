SPECIFICATION PrintSpec
CONSTANTS
  IntBits = 4
  LongLongBits = 7
  Widths = {0, 1, 2, 3, 5}
  MaxString = 2
  NULL = NULL
INVARIANTS NumberReadsBack FieldFilled DigitsFit
PROPERTIES ConversionEnds
