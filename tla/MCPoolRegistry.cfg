\* Two callers that look up, discover and register one token's pools.
CONSTANTS
  c1 = c1
  c2 = c2
  Callers = {c1, c2}
  Addresses <- MCAddresses
  Layout <- MCLayout
  Listings <- MCListings
SPECIFICATION Spec
SYMMETRY MCSymmetry
INVARIANTS TypeOK ScansBestPerDex UnresolvedOnlyIfMissed RegistrationServes
