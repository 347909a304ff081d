CONSTANTS
  MaxFlows = 2
  MaxRedirects = 2
  MaxToken = 3
  Flags <- MCFlags
SPECIFICATION FairBotSpec
INVARIANTS CodeOfThisFlow PanicsAreExplained MonitorHasIDs HelixSharesToken
PROPERTIES ApprovalEndsWait StoppedIsDown
CHECK_DEADLOCK FALSE
