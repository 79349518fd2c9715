SPECIFICATION Spec
CONSTANTS
  Networks = {attic, cellar, unnamed}
  Usable = {attic, cellar}
  Nothing = Nothing
INVARIANTS
  ForgottenIsGone
  JoinedIsSaved
