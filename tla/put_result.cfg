SPECIFICATION Spec
CONSTANTS
  Key = {1, 2, 3, 4}
  Value = {v1, v2}
  Capacity = {1, 2, 3}
  Nothing = Nothing
  Hash <- Hashes
  Node = {n1, n2, n3, n4}
  Null = Null
PROPERTY
  PutReturnsAdded
