\* The read at the start of a pass fails once.
SPECIFICATION Spec
CONSTANTS
  CR = {c1}
  Result = {ok}
  NoResult = none
  NoItem = noItem
  MaxStimuli = 1
  MayUpdateCR = TRUE
CHECK_DEADLOCK FALSE
INVARIANTS
  EveryObjectArmed
