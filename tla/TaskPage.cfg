CONSTANTS
  a1 = a1
  a2 = a2
  t1 = t1
  t2 = t2
  c1 = c1
  Accounts <- MCAccounts
  Tasks <- MCTasks
  Clicks <- MCClicks
  Owners <- MCOwners
  Stalling <- MCStalling
  Watched = t1
  MaxPolls = 2
CHECK_DEADLOCK FALSE
SPECIFICATION FairSpec
INVARIANTS
  TypeOK
  RestoreShowsAll
  OrphansAreYounger
PROPERTIES
  CardLearnsEnd
