SPECIFICATION FairSpec
CONSTANTS
  k1 = k1
  k2 = k2
  k3 = k3
  k4 = k4
  Connections <- FourConnections
  MAX_CONC_CONN = 2
CHECK_DEADLOCK FALSE
INVARIANTS
  TypeOK
  ServedLimit
  ExactWhenUndivided
PROPERTY
  ConnectionIsTaken
