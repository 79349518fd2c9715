SPECIFICATION OnboardingSpec
CONSTANTS
  Calls = {c1, c2}
  Stops = {d1}
  Keys = {}
  Requests = {r1, r2}
  Credentials = {r1, r2}
  Gatewayless = {r2}
  NoClient = NoClient
  NoCredential = NoCredential
  HasClaimCode = FALSE
  Sequential = TRUE
  Refusing = FALSE
  Oversized = {}
  MaxManifest = 1
  MaxFaults = 1
  MaxCrashes = 1
  ServerStarts = {s1, s2}
  ServerStops = {t1}
  same = same
  Codes = {same}
  Code <- SameCode
  NoServer = NoServer
  Failing = {"load", "apStart", "listen", "claim", "save", "join", "forget", "hangup"}
  Overlaps = {}
CHECK_DEADLOCK FALSE
INVARIANTS
  NeverBesideSession
  ProvisioningShown
  OnboardedRestartSafe
  ServingIsReal
  ApMatchesEndpoint
  JoinsOffSetupNetwork
SYMMETRY MCSymmetry
