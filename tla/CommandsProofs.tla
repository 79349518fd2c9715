--------------------------- MODULE CommandsProofs ---------------------------
(***************************************************************************)
(* Theorems about Commands, for every set of declarations and values.      *)
(***************************************************************************)
EXTENDS Commands, TLAPS

USE ValuesAssumption, DeclarationsAssumption, HandlersAssumption, BoundAssumption, UnsetAssumption

\* A list is a function into the declarations.
LEMMA ListType ==
  ASSUME NEW list \in Lists PROVE \A i \in DOMAIN list : list[i] \in Declarations
<1>1. PICK n \in 0..MaxDeclared : list \in [1..n -> Declarations]
  BY DEF Lists
<1> QED BY <1>1

\* The map of a list that builds has exactly the entries of the list.
LEMMA MapOfBuilt ==
  ASSUME NEW list \in Lists, Builds(list)
  PROVE  /\ MapOf(list) \in [Keys -> Declarations \cup {Unset}]
         /\ \A i \in DOMAIN list : MapOf(list)[list[i].key] = list[i]
         /\ \A k \in Keys : MapOf(list)[k] # Unset =>
              \E i \in DOMAIN list : list[i] = MapOf(list)[k] /\ list[i].key = k
<1> DEFINE Last(k) == CHOOSE i \in Entries(list, k) : \A j \in Entries(list, k) : j <= i
<1>1. ASSUME NEW i \in DOMAIN list PROVE Last(list[i].key) = i
  <2>1. PICK n \in 0..MaxDeclared : list \in [1..n -> Declarations]
    BY DEF Lists
  <2>2. Entries(list, list[i].key) = {i}
    BY DEF Entries, Builds
  <2>3. i <= i
    BY <2>1
  <2> QED BY <2>2, <2>3
<1>2. ASSUME NEW i \in DOMAIN list PROVE MapOf(list)[list[i].key] = list[i]
  <2>1. list[i].key \in Keys
    BY DEF Builds
  <2>2. i \in Entries(list, list[i].key)
    BY DEF Entries
  <2> QED BY <1>1, <2>1, <2>2 DEF MapOf
<1>3. ASSUME NEW k \in Keys
      PROVE  \/ MapOf(list)[k] = Unset
             \/ \E i \in DOMAIN list : list[i] = MapOf(list)[k] /\ list[i].key = k
  <2>1. CASE Entries(list, k) = {}
    BY <2>1 DEF MapOf
  <2>2. CASE Entries(list, k) # {}
    <3>1. PICK i \in DOMAIN list : list[i].key = k
      BY <2>2 DEF Entries
    <3> QED BY <3>1, <1>2
  <2> QED BY <2>1, <2>2
<1>4. MapOf(list) \in [Keys -> Declarations \cup {Unset}]
  <2>1. \A k \in Keys : MapOf(list)[k] \in Declarations \cup {Unset}
    BY <1>3, ListType
  <2> QED BY <2>1 DEF MapOf
<1> QED BY <1>2, <1>3, <1>4

\* A declaration that buildConfig() takes is sound.
LEMMA BuiltIsSound ==
  ASSUME NEW d \in Declarations, d.key \in Keys, ValidConfig(d) PROVE Sound(d)
BY DEF Sound, ValidConfig

\* A list that builds, with its map, agrees with itself.
LEMMA BuiltAgrees ==
  ASSUME NEW list \in Lists, Builds(list), manifest = list, declared = MapOf(list)
  PROVE  ManifestAgrees
<1>1. \A i \in DOMAIN list : Sound(list[i])
  BY ListType, BuiltIsSound DEF Builds
<1> QED BY <1>1, MapOfBuilt DEF ManifestAgrees

\* The same in the state after a step.
LEMMA BuiltAgreesNext ==
  ASSUME NEW list \in Lists, Builds(list), manifest' = list, declared' = MapOf(list)
  PROVE  ManifestAgrees'
<1>1. \A i \in DOMAIN list : Sound(list[i])
  BY ListType, BuiltIsSound DEF Builds
<1> QED BY <1>1, MapOfBuilt DEF ManifestAgrees

\* validateCommandValue() accepts the commands of the wire format, bounds included.
LEMMA ValidationIsExact ==
  ASSUME NEW d \in Declarations, Sound(d), NEW payload \in Payloads
  PROVE  ValidCommandValue(d, payload) <=> payload \in Accepted(d)
<1> USE DEF ValidCommandValue, Accepted, Payloads, Value, Trigger, Malformed
<1>1. CASE d.type = "trigger" BY <1>1
<1>2. CASE d.type = "sensor" BY <1>2
<1>3. CASE d.type = "onoff" BY <1>3
<1>4. CASE d.type = "range"
  <2>1. d.min \in Int /\ d.max \in Int
    BY <1>4 DEF Sound
  <2>2. \A n \in Numbers : InRange(n, d) <=> d.min <= n /\ n <= d.max
    BY <2>1 DEF InRange
  <2> QED BY <1>4, <2>2
<1>5. CASE d.type = "enum" BY <1>5
<1> QED BY <1>1, <1>2, <1>3, <1>4, <1>5 DEF Declaration, CapabilityType

\* A new Device.
LEMMA InitInv == Init => TypeOK /\ ManifestAgrees /\ DispatchIsExact
<1> SUFFICES ASSUME Init PROVE TypeOK /\ ManifestAgrees /\ DispatchIsExact
  OBVIOUS
<1>1. manifest \in Lists /\ Builds(manifest) /\ declared = MapOf(manifest)
  BY DEF Init
<1>2. ManifestAgrees
  BY <1>1, BuiltAgrees
<1>3. declared \in [Keys -> Declarations \cup {Unset}]
  BY <1>1, MapOfBuilt
<1>4. TypeOK
  BY <1>1, <1>3 DEF Init, TypeOK, NoDispatch, Payloads
<1> QED BY <1>2, <1>4 DEF Init, DispatchIsExact

\* Every operation keeps the types and the agreement; a dispatch is exact because the
\* map it validates against is the manifest.
LEMMA Step ==
  ASSUME TypeOK, ManifestAgrees, DispatchIsExact, [Next]_vars
  PROVE  TypeOK' /\ ManifestAgrees' /\ DispatchIsExact'
<1>1. ASSUME NEW list \in Lists, DeclareCapabilities(list)
      PROVE  TypeOK' /\ ManifestAgrees' /\ DispatchIsExact'
  <2>1. CASE Builds(list)
    <3>1. manifest' = list /\ declared' = MapOf(list)
      BY <1>1, <2>1 DEF DeclareCapabilities, SetCapabilities
    <3>2. ManifestAgrees'
      BY <2>1, <3>1, BuiltAgreesNext
    <3>3. declared' \in [Keys -> Declarations \cup {Unset}]
      BY <2>1, <3>1, MapOfBuilt
    <3> QED BY <1>1, <3>1, <3>2, <3>3
            DEF DeclareCapabilities, TypeOK, DispatchIsExact, NoDispatch, Payloads
  <2>2. CASE ~Builds(list)
    <3>1. UNCHANGED <<manifest, declared>>
      BY <1>1, <2>2 DEF DeclareCapabilities, SetCapabilities
    <3> QED BY <1>1, <3>1
            DEF DeclareCapabilities, TypeOK, ManifestAgrees, DispatchIsExact, NoDispatch, Payloads
  <2> QED BY <2>1, <2>2
<1>2. ASSUME NEW r \in Registrations, NEW k \in Keys, OnCommand(r, k)
      PROVE  TypeOK' /\ ManifestAgrees' /\ DispatchIsExact'
  BY <1>2 DEF OnCommand, TypeOK, ManifestAgrees, DispatchIsExact, NoDispatch, Payloads
<1>3. ASSUME NEW r \in Registrations, Unregister(r)
      PROVE  TypeOK' /\ ManifestAgrees' /\ DispatchIsExact'
  BY <1>3 DEF Unregister, Without, TypeOK, ManifestAgrees, DispatchIsExact, NoDispatch, Payloads
<1>4. ASSUME NEW k \in Keys, NEW payload \in Payloads, Dispatch(k, payload)
      PROVE  TypeOK' /\ ManifestAgrees' /\ DispatchIsExact'
  <2>1. /\ dispatch'.key = k
        /\ dispatch'.payload = payload
        /\ dispatch'.by = IF commandHandlers[k] # NoHandler /\ Fits(k, payload)
                            THEN commandHandlers[k] ELSE NoHandler
        /\ UNCHANGED <<manifest, declared, commandHandlers, unregistered, keyOf>>
    BY <1>4 DEF Dispatch
  <2>2. TypeOK'
    BY <1>4 DEF Dispatch, TypeOK
  <2>3. ManifestAgrees'
    BY <2>1 DEF ManifestAgrees
  <2>4. Fits(k, payload) <=>
          payload # Malformed /\ \A i \in Announced(k) : payload \in Accepted(manifest[i])
    <3>1. CASE declared[k] = Unset
      <4>1. Announced(k) = {}
        BY <3>1, ListType DEF TypeOK, ManifestAgrees, Announced
      <4> QED BY <3>1, <4>1 DEF Fits
    <3>2. CASE declared[k] # Unset
      <4>1. PICK i \in DOMAIN manifest : manifest[i] = declared[k] /\ manifest[i].key = k
        BY <3>2 DEF ManifestAgrees
      <4>2. \A j \in Announced(k) : manifest[j] = declared[k]
        BY DEF ManifestAgrees, Announced
      <4>3. i \in Announced(k)
        BY <4>1 DEF Announced
      <4>4. declared[k] \in Declarations /\ Sound(declared[k])
        BY <4>1, ListType DEF TypeOK, ManifestAgrees
      <4> QED BY <3>2, <4>1, <4>2, <4>3, <4>4, ValidationIsExact DEF Fits
    <3> QED BY <3>1, <3>2
  <2>5. DispatchIsExact'
    BY <2>1, <2>4 DEF DispatchIsExact, Announced
  <2> QED BY <2>2, <2>3, <2>5
<1>5. CASE UNCHANGED vars
  BY <1>5 DEF vars, TypeOK, ManifestAgrees, DispatchIsExact, Announced
<1> QED BY <1>1, <1>2, <1>3, <1>4, <1>5 DEF Next

\* Every variable keeps its type.
THEOREM TypeCorrect == Spec => []TypeOK
BY InitInv, Step, PTL DEF Spec

\* Whatever lists the application tries, in whatever order, the manifest is one the
\* platform takes and dispatch validates against exactly what it announces.
THEOREM ManifestAlwaysAgrees == Spec => []ManifestAgrees
BY InitInv, Step, PTL DEF Spec

\* Of a key with a handler, exactly the commands the manifest announces reach it.
THEOREM DispatchAlwaysExact == Spec => []DispatchIsExact
BY InitInv, Step, PTL DEF Spec
-----------------------------------------------------------------------------
(***************************************************************************)
(* Unregistered handlers.                                                  *)
(***************************************************************************)

\* A handler in the map is the registration of its key, and was not unregistered.
HandlersInForce ==
  /\ \A k \in Keys : commandHandlers[k] # NoHandler =>
       commandHandlers[k] \notin unregistered /\ keyOf[commandHandlers[k]] = k
  /\ \A r \in unregistered : keyOf[r] # Unset
  /\ UnregisteredIsSilent

\* Every operation keeps the handlers in force those that were not unregistered.
LEMMA HandlersStep ==
  ASSUME TypeOK, HandlersInForce, [Next]_vars
  PROVE  HandlersInForce'
<1> USE DEF TypeOK, HandlersInForce, UnregisteredIsSilent, NoDispatch
<1>1. ASSUME NEW list \in Lists, DeclareCapabilities(list) PROVE HandlersInForce'
  BY <1>1 DEF DeclareCapabilities
<1>2. ASSUME NEW r \in Registrations, NEW k \in Keys, OnCommand(r, k) PROVE HandlersInForce'
  BY <1>2 DEF OnCommand
<1>3. ASSUME NEW r \in Registrations, Unregister(r) PROVE HandlersInForce'
  BY <1>3 DEF Unregister, Without
<1>4. ASSUME NEW k \in Keys, NEW payload \in Payloads, Dispatch(k, payload)
      PROVE  HandlersInForce'
  BY <1>4 DEF Dispatch
<1>5. CASE UNCHANGED vars
  BY <1>5 DEF vars
<1> QED BY <1>1, <1>2, <1>3, <1>4, <1>5 DEF Next

\* A handler that was unregistered never runs again, whatever is declared, registered and
\* unregistered after it.
THEOREM UnregisteredStaysSilent == Spec => []UnregisteredIsSilent
<1>1. Init => HandlersInForce
  BY DEF Init, HandlersInForce, UnregisteredIsSilent, NoDispatch
<1>2. HandlersInForce => UnregisteredIsSilent
  BY DEF HandlersInForce
<1> QED BY <1>1, <1>2, HandlersStep, TypeCorrect, PTL DEF Spec
=============================================================================
