CONSTANTS
  LOOP_PAUSE_TIME_USEC = 3
  Burst = 3
  Useconds = 5
  Boot = 4
  MaxClock = 24
  MaxBack = 6
  MaxAhead = 12
SPECIFICATION MainLoopSpec
INVARIANTS MainLoopTypeOK NeverTooFast
PROPERTIES NeverPausesLate PauseBounded
