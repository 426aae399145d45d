\* Two pods, a node; every interleaving of the handlers and the collector.
CONSTANTS
  Pod = {p1, p2}
  Node = {n1}
  Absent = Absent
  Unbound = Unbound
  NoEntry = NoEntry
  MaxChanges = 3
  MaxStalls = 1
SPECIFICATION FairSpec
CHECK_DEADLOCK FALSE
INVARIANTS
  IndexIsSound
  WindowsBelongToPods
PROPERTIES
  CacheCatchesUp
  HeadroomCatchesUp
