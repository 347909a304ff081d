CONSTANTS
  MaxFlows = 1
  MaxRedirects = 1
  MaxToken = 3
SPECIFICATION FairSpec
PROPERTY ReauthReplacesToken
CHECK_DEADLOCK FALSE
