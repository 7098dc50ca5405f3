\* Two connections, one of which may have to wait for a place in the backlog.
CONSTANTS
  Clients = {c1, c2}
  Backlog = 1
  None = None
SPECIFICATION LifecycleFairSpec
INVARIANTS LifecycleTypeOK NothingLeft
PROPERTIES SignalStops ConnectionsServed
CHECK_DEADLOCK FALSE
