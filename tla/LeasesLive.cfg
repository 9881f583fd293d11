\* One object with two dynamic keys, and a second operator: is a lease forgotten, and
\* what happens in the end?
SPECIFICATION LiveSpec
CONSTANTS
  CR = {c1}
  NoCR = NoCR
  Name = {n1}
  Key = {k1, k2}
  MaxLease = 10
  MaxTrouble = 3
  Trouble = {"fault", "unreadable", "hint", "expire", "delete", "drop", "rollout"}
INVARIANTS NoSilentLeak
PROPERTIES Supplied DeletionEnds 
CHECK_DEADLOCK FALSE
