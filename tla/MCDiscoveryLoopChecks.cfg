\* The list against what the README says of its tokens.
CONSTANTS
  w = w
  a = a
  b = b
  c = c
  Tokens = {w, a, b, c}
  Watched <- MCWatched
  Authorities = {a}
  ListCap = 2
  BatchCap = 2
SPECIFICATION Spec
INVARIANT ListedIsValidated
