CONSTANTS
  Chat <- MCChat
  Configs <- MCConfigs
  Bots = {"soypetetech"}
  Tools = {"timeout_user"}
  Named = {"viewer", "soypetetech"}
  Limit = 1
  Minute = 0
  Capacity = 1
  MaxRecent = 1
  MaxMessages = 1
  MaxConnections = 1
  MaxTime = 0
SPECIFICATION FairSpec
INVARIANT ActsOnNamedUser
CHECK_DEADLOCK FALSE
