CONSTANTS
  Senders = {t1}
  LoopThread = loop
  MsgLen = 2
  MaxSends = 2
  MaxForceCloses = 2
  StopAnytime = FALSE
SPECIFICATION FairSpec
INVARIANTS StreamIntact SendersInOrder FinAfterDrain ClosedForGood
PROPERTIES ClosedIsDestroyed ShutdownDrains
CHECK_DEADLOCK FALSE
