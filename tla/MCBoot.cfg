SPECIFICATION Spec
CONSTANTS
  BssEnd = 8
  Where <- MCWhere
  Garbage = 9
  Start = 64
  Lists <- MCLists
  BPlus <- MCBPlus
  Two <- MCTwo
INVARIANTS ClearsBss TagsTaken ModelBacked
PROPERTIES WalkEnds
CHECK_DEADLOCK FALSE
