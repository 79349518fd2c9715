SPECIFICATION Spec
CONSTANTS
  k1 = k1
  k2 = k2
  malformedKey = malformedKey
  yes = yes
  infinite = infinite
  on = on
  null = null
  Blank = Blank
  Unset = Unset
  NoHandler = NoHandler
  Keys = {k1, k2}
  MalformedKeys = {malformedKey}
  Declarations <- MCDeclarations
  MaxDeclared = 2
  Registrations = {r1, r2, r3}
  Booleans = {yes}
  Numbers <- MCNumbers
  NonFinite = {infinite}
  Strings = {on, Blank}
  OtherValues = {null}
INVARIANTS
  ManifestAgrees
  DispatchIsExact
  UnregisteredIsSilent
