SPECIFICATION Spec
CONSTANTS
  Calls = {c1}
  Stops = {d1}
  Keys = {k1}
  good = good
  lacking = lacking
  Credentials <- MCCredentials
  Gatewayless <- MCGatewayless
  NoClient = NoClient
  NoCredential = NoCredential
  HasClaimCode = TRUE
  Sequential = TRUE
  Refusing = FALSE
  Oversized = {}
  MaxManifest = 1
  MaxFaults = 1
  MaxCrashes = 0
PROPERTY ClosedIsTerminal
