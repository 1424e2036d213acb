CONSTANTS
  t1 = t1
  t2 = t2
  a1 = a1
  NoTask = NoTask
  Tasks <- MCTasks
  Accounts <- MCAccounts
  AccountOf <- MCAccountOf
  Concurrency = 2
  MaxStalled = 1
  MaxCancels = 1
  MaxCrashes = 0
  MaxFaults = 0
  Races = {}
CHECK_DEADLOCK FALSE
SPECIFICATION Spec
INVARIANT PendingWillRun
