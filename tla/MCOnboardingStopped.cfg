SPECIFICATION OnboardingSpec
CONSTANTS
  Calls = {c1}
  Stops = {d1}
  Keys = {}
  Requests = {r1, r2}
  Credentials = {r1, r2}
  Gatewayless = {}
  NoClient = NoClient
  NoCredential = NoCredential
  HasClaimCode = FALSE
  Sequential = TRUE
  Refusing = FALSE
  Oversized = {}
  MaxManifest = 1
  MaxFaults = 0
  MaxCrashes = 0
  ServerStarts = {s1}
  ServerStops = {t1}
  same = same
  Codes = {same}
  Code <- SameCode
  NoServer = NoServer
  Failing = {"join"}
  Overlaps = {"stop"}
CHECK_DEADLOCK FALSE
INVARIANT NeverBesideSession
