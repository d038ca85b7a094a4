SPECIFICATION Spec
CONSTANTS
  MaxServers = 99999
  MaxReplicas = 3
  Stride = 100
  Character = {1, 97, 127, 128, 255}
  NameLimit = 5
INVARIANTS
  PointNamesLabel
  NoPointAtMaximum
  NameHashIsPolynomial
CHECK_DEADLOCK FALSE
