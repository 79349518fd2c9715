SPECIFICATION FairSpec
CONSTANTS
  RECONNECT_FLOOR_MS = 1
  RECONNECT_CAP_MS = 3
  Publishes = {p1, p2}
  Qos1 = {p1}
  Large = {p2}
  Sessions = {m1, m2}
  NoClient = NoClient
  PUBLISH_ATTEMPTS = 3
  Base = 2
  MaxFaults = 2
CHECK_DEADLOCK FALSE
INVARIANTS
  StoredOnce
PROPERTIES
  ImplementsDelivery
  WaitsBackOff
  RetriesGoOn
  PublishSettles
