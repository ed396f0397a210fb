CONSTANTS
  Threads = {t1, t2}
  MaxFunctors = 4
  Addrs = {1, 2}
  Kinds <- MCKinds
  MaxTimers = 3
  MaxPending = 1
  Residue = {2}
  MaxLate = 1
SPECIFICATION MCSpec
CHECK_DEADLOCK FALSE
INVARIANTS CalledInOrder NoLostWakeup NoLostQuit TimersSound
PROPERTIES QueuedIsCalled QuitStops TimerRuns
