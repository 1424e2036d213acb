CONSTANTS
  u1 = u1
  h1 = h1
  l1 = l1
  l2 = l2
  l3 = l3
  l4 = l4
  l5 = l5
  None = None
  Boot = Boot
  Users <- MCUsers
  Ticks <- MCTicks
  Logins <- MCLogins
  MaxAdmin = 2
  MaxCrashes = 1
  MaxWrites = 1
CHECK_DEADLOCK FALSE
SPECIFICATION Spec
INVARIANTS
  TypeOK
  LockIsLive
  OneLogin
  ActiveHasSession
PROPERTIES
  RefreshReplaces
  RemovedStaysRemoved
  ImplementsSingleFlight
