SPECIFICATION FairSpec
CONSTANTS
  Starts = {s1}
  Stops = {t1}
  Requests = {r1}
  same = same
  another = another
  Codes = {same, another}
  Code <- SameCode
  NoServer = NoServer
  NoCredential = NoCredential
  Overlaps = {}
  Failing = {"hangup"}
  MaxCrashes = 0
CHECK_DEADLOCK FALSE
PROPERTY StoredIsHanded
