\* One browser, three events through a channel that keeps one.
CONSTANTS
  Panels = {p1}
  Settings = {"mode", "min_spread_bps"}
  Told = {"mode"}
  Values = {"low", "high"}
  InitialSettings <- CommandLine
  Updates <- Bodies
  RingCap = 1
  MaxRequests = 3
  MaxEvents = 3
SPECIFICATION Spec
INVARIANTS TypeOK StatusMatchesEvents
PROPERTIES StreamBehaviour ChangesAreMade EventsReachPanels
