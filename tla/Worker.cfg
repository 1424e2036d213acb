CONSTANTS
  s1 = s1
  s2 = s2
  s3 = s3
  None = None
  Seats <- MCSeats
  Preferred <- MCPreferred
  Wakes <- MCWakes
  HighUntil = 2
  Deadline = 5
  FirstFire = 1
  HighFreq = 1
  LowFreq = 3
  RateLimit = 3
  QuickRetry = 0
  BlindPause = 1
  BlindRateLimit = 2
  BlindNetwork = 0
  DegradeAfter = 2
  UnknownDegrade = 2
  NetworkLimit = 2
  MaxTime = 5
  MaxRounds = 4
  MaxFaults = 1
CHECK_DEADLOCK FALSE
VIEW View
SPECIFICATION Spec
INVARIANTS
  TypeOK
  EndHasVerdict
PROPERTIES
  PaceKept
  RotationFair
  GiveUpOnSilence
  ImplementsGrabRun
  StepsOfLifecycle
