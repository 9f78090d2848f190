SPECIFICATION StartupSpec
CONSTANTS
  p1 = p1
  p2 = p2
  p3 = p3
  Processes = {p1, p2, p3}
  NoArgs = {p1}
  UserOf <- TwoUsers
  NOBODY = NOBODY
INVARIANTS
  StartupTypeOK
  NothingLeftBehind
  RunningIsReachable
  StaleSocketIsNoObstacle
PROPERTIES
  EveryStartSettles
