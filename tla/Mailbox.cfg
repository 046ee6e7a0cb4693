SPECIFICATION Spec
CONSTANTS
  Channels = {8, 1}
  ReadChannels = {8}
  Depth = 2
  READ_MAILBOX_TIMEOUT = 1
  Invalid = Invalid
  MaxRequests = 2
  MaxPosts = 2
INVARIANTS TypeOK NoneWantedDropped
PROPERTIES CallsReturn GivesUpUnanswered
CHECK_DEADLOCK FALSE
