CONSTANTS
  s1 = s1
  s2 = s2
  Precheck = Precheck
  Seats <- MCSeats
  MaxFaults = 2
CHECK_DEADLOCK FALSE
SYMMETRY SeatSymmetry
SPECIFICATION Spec
INVARIANTS
  TypeOK
  VerdictLostOnlyToStale
  ReportLostOnlyToOverlap
