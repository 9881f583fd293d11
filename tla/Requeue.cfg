SPECIFICATION Spec
CONSTANTS
  c1 = c1
  CR = {c1}
  NoItem = NoItem
  Raw = {0, 1, 5, 48}
  Floor = 2
  Default = 20
  Minute = 4
  Hard = 40
  MaxStimuli = 5
INVARIANTS TypeOK Freshness FloorBetweenFirings TwoEarlyFirings RInv
CHECK_DEADLOCK FALSE
