SPECIFICATION Spec
CONSTANTS
  Producers = {p1, p2}
  MaxBoots = 3
  MaxFaults = 2
  MaxRestarts = 2
INVARIANTS
  TypeOK
  NetworkGuarded
PROPERTIES
  NetworkReturns
CHECK_DEADLOCK FALSE
