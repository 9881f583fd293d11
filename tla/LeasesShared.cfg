\* Two objects with the same spec.secretName.
SPECIFICATION Spec
CONSTANTS
  CR = {c1, c2}
  NoCR = NoCR
  Name = {n1}
  Key = {k1}
  MaxLease = 3
  MaxTrouble = 1
  Trouble = {"delete"}
INVARIANTS RevokesItsOwn
CHECK_DEADLOCK FALSE
