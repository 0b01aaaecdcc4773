\* A list of two places for one watched and three discoverable tokens.
CONSTANTS
  w = w
  a = a
  b = b
  c = c
  Tokens = {w, a, b, c}
  Watched <- MCWatched
  Authorities = {a}
  ListCap = 2
  BatchCap = 2
SPECIFICATION Spec
INVARIANTS TypeOK ListedOnce AuthoritiesKeptOut ListedHasPools
PROPERTIES ListedIsScanned
