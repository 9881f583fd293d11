\* One object, its clients and every fault.
SPECIFICATION LiveSpec
CONSTANTS
  CR = {c1}
  Result = {ok, failed}
  NoResult = none
  NoItem = noItem
  MaxStimuli = 3
  MayUpdateCR = TRUE
CHECK_DEADLOCK FALSE
INVARIANTS
  TypeOK
  MintsUnderFinalizer
  HonestStatus
  AtMostOneLatePass
  IInv
PROPERTIES
  ImplementsPassLoop
  StatusMovesForward
  Convergence
  CancelledStops
  ServedAgain
