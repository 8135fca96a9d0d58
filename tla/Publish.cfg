SPECIFICATION Spec
CONSTANTS
  u1 = u1  u2 = u2  e1 = e1  e2 = e2  e3 = e3
  Users = {u1, u2}
  Strays = {ghost}
  Entries = {e1, e2}
  OwnerOf <- TwoOwners
  Minute <- SameMinute
  Runs = {r1}
  NULL = NULL
  MaxTime = 3
  MaxFaults = 2
INVARIANTS TypeOK SitesAreWhole 
PROPERTIES SitesAppearWhole AddressesHold 
