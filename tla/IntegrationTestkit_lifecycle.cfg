SPECIFICATION FairSpec
CONSTANTS
  Proxies = {p, q, d}
  DevProxies = {d}
  MaxSignals = 2
INVARIANTS
  TypeOK
  ComponentsKnowPort
  ShutdownAfterProxy
PROPERTIES
  NeverLeavesProxy
  StopsWhenTold
CHECK_DEADLOCK FALSE
