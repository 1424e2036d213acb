CONSTANTS
  r1 = r1
  r2 = r2
  a1 = a1
  a2 = a2
  m1 = m1
  m2 = m2
  t1 = t1
  t2 = t2
  None = None
  Rounds <- MCRounds
  Accounts <- MCAccounts
  Messages <- MCMessages
  AccountOf <- MCAccountOf
  TitleOf <- MCTitleOf
  MaxFaults = 1
  MaxCrashes = 0
  MaxWindows = 0
  MaxChanges = 1
CHECK_DEADLOCK FALSE
SPECIFICATION Spec
PROPERTY NoHistoryPushed
