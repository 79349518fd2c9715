SPECIFICATION FairSpec
CONSTANTS
  Starts = {s1, s2}
  Stops = {t1}
  Requests = {r1, r2}
  same = same
  another = another
  Codes = {same, another}
  Code <- TwoCodes
  NoServer = NoServer
  NoCredential = NoCredential
  Overlaps = {"stop"}
  Failing = {"load", "apStart", "apStop", "listen", "claim", "save", "join", "hangup"}
  MaxCrashes = 1
CHECK_DEADLOCK FALSE
INVARIANTS
  NeverAlongside
  HandedIsStored
  PassphraseForgotten
  NoWaitingCircle
PROPERTIES
  ImplementsOneClaim
  RepliesBeforeDown
  ProvisionedIsFinal
  EverythingSettles
  FlushedIsHanded
