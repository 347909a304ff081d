CONSTANTS
  Syncs = {s1, s2}
  Questions = {"a", "b"}
  Responses = {1, 2}
  Files <- MCFiles
  MaxSyncs = 3
  MaxTriggers = 1
  Ids = {1, 2, 3, 4, 5, 6, 7, 8}
SPECIFICATION Spec
PROPERTIES ConfiguredIsKept CleanSyncIsFull
CHECK_DEADLOCK FALSE
