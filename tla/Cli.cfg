SPECIFICATION FairSpec
CONSTANTS
  Claims = {c1, c2}
  Provisions = {p1, p2}
  Connects = {n1}
  Nothing = Nothing
  Exclusive = TRUE
CHECK_DEADLOCK FALSE
INVARIANTS
  CredentialsWork
PROPERTIES
  StoreMovesForward
  CommandsEnd
