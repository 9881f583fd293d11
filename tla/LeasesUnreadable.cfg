\* A deletion during which the target Secret cannot be read.
SPECIFICATION Spec
CONSTANTS
  CR = {c1}
  NoCR = NoCR
  Name = {n1}
  Key = {k1}
  MaxLease = 3
  MaxTrouble = 2
  Trouble = {"unreadable", "delete"}
PROPERTIES DeletedIsRevoked
CHECK_DEADLOCK FALSE
