CONSTANTS
  Senders = {t1}
  LoopThread = loop
  MsgLen = 2
  MaxSends = 2
  MaxForceCloses = 2
  StopAnytime = TRUE
SPECIFICATION Spec
PROPERTY HandleCloseAssert
CHECK_DEADLOCK FALSE
