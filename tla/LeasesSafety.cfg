\* Two objects that can aim at the same two Secrets.
SPECIFICATION Spec
CONSTANTS
  CR = {c1, c2}
  NoCR = NoCR
  Name = {n1, n2}
  Key = {k1}
  MaxLease = 4
  MaxTrouble = 2
  Trouble = {"fault", "foreign", "hint", "expire", "delete", "drop", "retarget"}
INVARIANTS TypeOK StoredIsLive LInv
PROPERTIES FinalizerWaits ImplementsRoles ImplementsPassLoop
CHECK_DEADLOCK FALSE
