SPECIFICATION Spec
CONSTANTS
  Kinds = {"fsnotify", "polled", "unwatched", "cache", "online", "backed"}
  MaxChanges = 2
  Streaming = TRUE
INVARIANTS
  QuietAgrees
PROPERTIES
  Follows
  
CHECK_DEADLOCK FALSE
