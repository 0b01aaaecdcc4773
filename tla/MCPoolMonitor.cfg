\* A Raydium pool, whose coin vault the second of three trades empties, and a
\* curve, through one-place channels.
CONSTANTS
  curve = curve
  whirl = whirl
  Curves = {curve}
  Whirlpools = {}
  QuoteCap = 1
  GradCap = 1
  MaxWire = 2
  MaxTrades = 3
  EmptyAt = {2}
SPECIFICATION Spec
INVARIANTS TypeOK SettledQuoteIsConsistent
PROPERTIES GraduatesOncePerRun GraduationSniped
