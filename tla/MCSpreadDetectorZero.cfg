\* A pool is priced zero while SOL/USD is unknown.
CONSTANTS
  Venues <- MCVenues
  FeeBps <- MCFeeBps
  Prices = {0, 10000}
  MinSpread = 50
  DedupBps = 5
  MaxAge = 1
SPECIFICATION Spec

PROPERTIES NoDuplicates
