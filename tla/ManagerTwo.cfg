\* Two objects share the worker, the queue and the watch.
SPECIFICATION LiveSpec
CONSTANTS
  CR = {c1, c2}
  Result = {ok}
  NoResult = none
  NoItem = noItem
  MaxStimuli = 1
  MayUpdateCR = TRUE
CHECK_DEADLOCK FALSE
INVARIANTS
  RefreshArmed
PROPERTIES
  QuietChangesReconcile
  TurnsComeNearer
  ServedAgain
