CONSTANTS
  t1 = t1
  t2 = t2
  a1 = a1
  NoTask = NoTask
  Tasks <- MCTasks
  Accounts <- MCAccounts
  AccountOf <- MCAccountOf
  Concurrency = 1
  MaxStalled = 1
  MaxCancels = 1
  MaxCrashes = 1
  MaxFaults = 1
  Races = {"parallelCreate"}
CHECK_DEADLOCK FALSE
SPECIFICATION Spec
SYMMETRY Symmetry
VIEW View
INVARIANTS
  TypeOK
  PendingHasJob
  SuccessIsBooked
  OnePendingUnlessUnseen
