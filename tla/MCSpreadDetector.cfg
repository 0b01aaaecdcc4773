\* Three venues; the spread drifts by less than the deduplication threshold.
CONSTANTS
  Venues <- MCVenues
  FeeBps <- MCFeeBps
  Prices = {10000, 10100, 10103, 10106}
  MinSpread = 50
  DedupBps = 5
  MaxAge = 1
SPECIFICATION Spec
INVARIANTS TypeOK OpportunityHolds DriftIsReported
PROPERTIES NoDuplicates
