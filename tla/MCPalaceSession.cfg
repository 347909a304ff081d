CONSTANTS
  Batch = 2
  MaxMessages = 3
SPECIFICATION FairSpec
INVARIANTS EachMessageOnce OpenSessionIsWhole
PROPERTIES BufferedIsSettled InterruptEnds
CHECK_DEADLOCK FALSE
