\* Two objects with the same client id.
SPECIFICATION LiveSpec
CONSTANTS
  CR = {c1, c2}
  Timeout = 1
  Margin = 6
  Life = 9
  MaxVersion = 2
  Listed = {c1}
  MaxCalls = 4
  MaxTrouble = 2
INVARIANTS TypeOK FetchTokenLives NextPassReauthenticates
 
CHECK_DEADLOCK FALSE
