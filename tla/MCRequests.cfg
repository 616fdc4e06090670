SPECIFICATION RSpec
CONSTANTS
  Kinds = {"cache", "online"}
  MaxChanges = 1
  Streaming = FALSE
  Users <- MCUsers
  DefaultAttrs <- MCDefaultAttrs
INVARIANTS
  ServesAConfig
PROPERTIES
  NotModifiedIsTrue
  Answered
CHECK_DEADLOCK FALSE
