SPECIFICATION FairSpec
CONSTANTS
  Calls = {c1, c2}
  Stops = {d1}
  Keys = {k1}
  good = good
  lacking = lacking
  Credentials <- MCCredentials
  Gatewayless <- MCGatewayless
  NoClient = NoClient
  NoCredential = NoCredential
  HasClaimCode = TRUE
  Sequential = TRUE
  Refusing = TRUE
  Oversized = {2}
  MaxManifest = 2
  MaxFaults = 2
  MaxCrashes = 1
INVARIANTS
  NoOrphan
  ConnectedIsUp
  FlagHonest
  ManifestCurrent
  RestartSafe
  ClaimsUnprovisioned
PROPERTIES
  ImplementsLifecycle
  ClosedIsFinal
  ConnectSettles
  Reconnects
