\* The permissions of the shipped ClusterRole: no update on krypticsecrets.
SPECIFICATION LiveSpec
CONSTANTS
  CR = {c1}
  Result = {ok}
  NoResult = none
  NoItem = noItem
  MaxStimuli = 0
  MayUpdateCR = FALSE
CHECK_DEADLOCK FALSE
PROPERTIES
  DeclaredObjectSyncs
