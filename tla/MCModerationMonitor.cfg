CONSTANTS
  Chat <- MCChat
  Configs <- MCConfigs
  Bots = {"soypetetech"}
  Tools = {"no_action", "warn_user", "unban_user", "add_vip"}
  Named = {"other"}
  Limit = 1
  Minute = 1
  Capacity = 1
  MaxRecent = 1
  MaxMessages = 3
  MaxConnections = 2
  MaxTime = 2
SPECIFICATION FairSpec
INVARIANTS BurstIsBounded ActsArePermitted ActsAreAudited RecentIsTail
PROPERTIES LimiterIsPrivate QueuesDrain
CHECK_DEADLOCK FALSE
