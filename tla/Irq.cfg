SPECIFICATION Spec
CONSTANTS
  Lines = {29, 57, 60, 64}
  Direct = {57}
  Handlers = {h}
  Default = Default
  Null = Null
  Elsewhere = Elsewhere
  MaxLevel = 2
INVARIANTS TypeOK EntryNotInterrupted CalledAsRegistered DispatchesRaised DispatchesShown
PROPERTIES Served
