CONSTANTS
  u1 = u1
  h1 = h1
  l1 = l1
  l2 = l2
  l3 = l3
  l4 = l4
  l5 = l5
  None = None
  Boot = Boot
  Users <- MCUsers
  Ticks <- MCTicks
  Logins <- MCLogins
  MaxAdmin = 1
  MaxCrashes = 0
  MaxWrites = 2
CHECK_DEADLOCK FALSE
SPECIFICATION FairSpec
PROPERTIES
  RowFollowsSession
  HeartbeatRepairs
