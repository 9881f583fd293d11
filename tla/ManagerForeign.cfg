\* A client changes an object while its status is being written.
SPECIFICATION Spec
CONSTANTS
  CR = {c1}
  Result = {ok}
  NoResult = none
  NoItem = noItem
  MaxStimuli = 1
  MayUpdateCR = TRUE
CHECK_DEADLOCK FALSE
PROPERTIES
  ForeignChangesReconcile
