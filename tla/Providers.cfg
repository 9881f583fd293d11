\* Three leases, three providers, two faults.
SPECIFICATION LiveSpec
CONSTANTS
  l1 = l1
  l2 = l2
  l3 = l3
  Lease = {l1, l2, l3}
  NoLease = noLease
  Kind <- MCKind
  Template <- MCTemplate
  MaxName = 7
  MaxTrouble = 2
CHECK_DEADLOCK FALSE
INVARIANTS
  PInv
  DeliveredWorks
  NoUnknownUser
PROPERTIES
  ImplementsRoles
  AttemptsGoThrough
  
  
