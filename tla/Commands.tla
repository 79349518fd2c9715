------------------------------- MODULE Commands -------------------------------
(***************************************************************************)
(* What a Device declares and which commands reach its handlers:           *)
(* src/src/capability.ts, and setCapabilities(), onCommand() and           *)
(* dispatchCommand() of src/src/device.ts.                                 *)
(*                                                                         *)
(* The application re-declares and re-registers at runtime; a command may  *)
(* arrive at any moment, validated by the platform against an earlier      *)
(* manifest or not at all.  Each of these operations is one turn of the    *)
(* event loop.  Keys, strings and JSON values are told apart as far as the *)
(* code tells them apart.                                                  *)
(***************************************************************************)
EXTENDS Integers, Sequences

CONSTANTS Keys,           \* capability keys that KEY_PATTERN matches
          MalformedKeys,  \* those it does not
          Declarations,   \* the declarations an application may make
          MaxDeclared,    \* bound: declarations in one list
          Registrations,  \* the invocations of onCommand()
          Booleans, Numbers, NonFinite, Strings, OtherValues,  \* JSON values, by typeof:
                          \* finite numbers, those like 1e999; null, arrays and objects
          Blank,          \* the empty string
          Unset,          \* undefined: an optional field, or the value of a trigger
          NoHandler       \* no entry in this.commandHandlers

CapabilityType == {"onoff", "range", "enum", "trigger", "sensor"}

Declaration == [key : Keys \cup MalformedKeys, type : CapabilityType,
                min : Numbers \cup NonFinite, max : Numbers \cup NonFinite,
                step : Numbers \cup NonFinite \cup {Unset},
                options : SUBSET Strings, metric : Strings]

ASSUME ValuesAssumption == Numbers \subseteq Int
ASSUME KeysAssumption == Keys \cap MalformedKeys = {}
ASSUME DeclarationsAssumption == Declarations \subseteq Declaration
ASSUME HandlersAssumption == NoHandler \notin Registrations
ASSUME BoundAssumption == MaxDeclared \in Nat
ASSUME UnsetAssumption == Unset \notin Keys /\ Unset \notin Declaration

\* JSON.parse() with the shape check of decodeCommandPayload(): {"value": ...}, {}, or not
\* a command.
JsonValues == Booleans \cup Numbers \cup NonFinite \cup Strings \cup OtherValues
Value(v)  == [kind |-> "value", value |-> v]
Trigger   == [kind |-> "trigger", value |-> Unset]
Malformed == [kind |-> "malformed", value |-> Unset]
Payloads  == {Value(v) : v \in JsonValues} \cup {Trigger, Malformed}

VARIABLES
  manifest,         \* this.manifestJson: the declarations it was built from
  declared,         \* this.declaredCapabilities
  commandHandlers,  \* this.commandHandlers: the registration that serves each key
  unregistered,     \* registrations whose unregister function was called
  keyOf,            \* the key each registration was made for
  dispatch          \* the command this step dispatched, if any, and who handled it

vars == <<manifest, declared, commandHandlers, unregistered, keyOf, dispatch>>

NoDispatch == [key |-> Unset, payload |-> Malformed, by |-> NoHandler]

-----------------------------------------------------------------------------
(***************************************************************************)
(* buildManifest(), setCapabilities(), declareCapabilities().              *)
(***************************************************************************)
Lists == UNION {[1..n -> Declarations] : n \in 0..MaxDeclared}

\* buildConfig() throws unless:
ValidConfig(d) ==
  /\ d.type = "range" =>
       /\ d.min \in Numbers /\ d.max \in Numbers /\ d.min < d.max
       /\ d.step # Unset => d.step \in Numbers /\ d.step > 0
  /\ d.type = "enum" => d.options # {} /\ Blank \notin d.options
  /\ d.type = "sensor" => d.metric # Blank

\* buildManifest() throws unless:
Builds(list) ==
  /\ \A i \in DOMAIN list : list[i].key \in Keys /\ ValidConfig(list[i])
  /\ \A i, j \in DOMAIN list : list[i].key = list[j].key => i = j

\* new Map(declarations.map((d) => [d.key, d])): the last entry of a key stays.
Entries(list, k) == {i \in DOMAIN list : list[i].key = k}
MapOf(list) ==
  [k \in Keys |-> IF Entries(list, k) = {} THEN Unset
                  ELSE list[CHOOSE i \in Entries(list, k) : \A j \in Entries(list, k) : j <= i]]

\* The manifest is built, or throws, before either field is assigned.
MapFirst(list) ==
  /\ declared' = MapOf(list)
  /\ manifest' = IF Builds(list) THEN list ELSE manifest

SetCapabilities(list) ==
  IF Builds(list) THEN manifest' = list /\ declared' = MapOf(list)
                  ELSE UNCHANGED <<manifest, declared>>

Init ==
  /\ manifest \in {list \in Lists : list # <<>> /\ Builds(list)}
  /\ declared = MapOf(manifest)
  /\ commandHandlers = [k \in Keys |-> NoHandler]
  /\ unregistered = {}
  /\ keyOf = [r \in Registrations |-> Unset]
  /\ dispatch = NoDispatch

DeclareCapabilities(list) ==
  /\ SetCapabilities(list)
  /\ dispatch' = NoDispatch
  /\ UNCHANGED <<commandHandlers, unregistered, keyOf>>

-----------------------------------------------------------------------------
(***************************************************************************)
(* onCommand() and its unregister function.                                *)
(***************************************************************************)
\* A malformed key, and one declared a sensor at this moment, throw: nothing changes.
OnCommand(r, k) ==
  /\ keyOf[r] = Unset
  /\ declared[k] # Unset => declared[k].type # "sensor"
  /\ keyOf' = [keyOf EXCEPT ![r] = k]
  /\ commandHandlers' = [commandHandlers EXCEPT ![k] = r]
  /\ dispatch' = NoDispatch
  /\ UNCHANGED <<manifest, declared, unregistered>>

\* The entry of the key goes, whichever registration it serves now.
HandlersKept(r) == commandHandlers
Without(r) == [commandHandlers EXCEPT ![keyOf[r]] = NoHandler]

Unregister(r) ==
  /\ keyOf[r] \in Keys
  /\ commandHandlers' = Without(r)
  /\ unregistered' = unregistered \cup {r}
  /\ dispatch' = NoDispatch
  /\ UNCHANGED <<manifest, declared, keyOf>>

-----------------------------------------------------------------------------
(***************************************************************************)
(* dispatchCommand().                                                      *)
(***************************************************************************)
InRangeExclusive(v, d) == d.min <= v /\ v < d.max
InRange(v, d) == ~(v < d.min \/ v > d.max)

\* validateCommandValue() throws unless:
ValidCommandValue(d, payload) ==
  \/ d.type = "trigger" /\ payload.kind = "trigger"
  \/ d.type = "onoff" /\ payload.kind = "value" /\ payload.value \in Booleans
  \/ /\ d.type = "range" /\ payload.kind = "value" /\ payload.value \in Numbers
     /\ InRange(payload.value, d)
  \/ d.type = "enum" /\ payload.kind = "value" /\ payload.value \in d.options

\* What is checked is the declaration in force when the command arrives.
Fits(k, payload) ==
  /\ payload # Malformed
  /\ declared[k] # Unset => ValidCommandValue(declared[k], payload)

Dispatch(k, payload) ==
  /\ dispatch' = [key |-> k, payload |-> payload,
                  by |-> IF commandHandlers[k] # NoHandler /\ Fits(k, payload)
                           THEN commandHandlers[k] ELSE NoHandler]
  /\ UNCHANGED <<manifest, declared, commandHandlers, unregistered, keyOf>>

Next ==
  \/ \E list \in Lists : DeclareCapabilities(list)
  \/ \E r \in Registrations : Unregister(r) \/ \E k \in Keys : OnCommand(r, k)
  \/ \E k \in Keys, payload \in Payloads : Dispatch(k, payload)

Spec == Init /\ [][Next]_vars

-----------------------------------------------------------------------------
TypeOK ==
  /\ manifest \in Lists
  /\ declared \in [Keys -> Declarations \cup {Unset}]
  /\ commandHandlers \in [Keys -> Registrations \cup {NoHandler}]
  /\ unregistered \subseteq Registrations
  /\ keyOf \in [Registrations -> Keys \cup {Unset}]
  /\ dispatch \in [key : Keys \cup {Unset}, payload : Payloads,
                   by : Registrations \cup {NoHandler}]

\* What the platform's parser takes: a range of more than one number, options that can be
\* named, a metric.
Sound(d) ==
  /\ d.key \in Keys
  /\ d.type = "range" => d.min \in Numbers /\ d.max \in Numbers /\ d.min < d.max
  /\ d.type = "enum" => d.options \ {Blank} # {}
  /\ d.type = "sensor" => d.metric # Blank

\* "Invalid declarations throw here, on the device, rather than being rejected silently
\* after publish" (buildManifest()): whatever lists were tried, the manifest is sound, and
\* dispatch validates against exactly what it announces.
ManifestAgrees ==
  /\ \A i \in DOMAIN manifest : Sound(manifest[i]) /\ declared[manifest[i].key] = manifest[i]
  /\ \A k \in Keys : declared[k] # Unset =>
       \E i \in DOMAIN manifest : manifest[i] = declared[k] /\ manifest[i].key = k

\* The commands of the wire format that a declaration takes.
Accepted(d) ==
  CASE d.type = "trigger" -> {Trigger}
    [] d.type = "sensor"  -> {}
    [] d.type = "onoff"   -> {Value(v) : v \in Booleans}
    [] d.type = "range"   -> {Value(v) : v \in {n \in Numbers : d.min <= n /\ n <= d.max}}
    [] d.type = "enum"    -> {Value(v) : v \in d.options}

Announced(k) == {i \in DOMAIN manifest : manifest[i].key = k}

\* "A malformed payload or a value that does not fit the declared capability [...] never
\* reaches the handler" (README), and one that fits always does: of a key with a handler,
\* exactly the commands the manifest announces, whatever was declared when the handler was
\* registered.
DispatchIsExact ==
  dispatch # NoDispatch /\ commandHandlers[dispatch.key] # NoHandler =>
    (dispatch.by # NoHandler <=>
       /\ dispatch.payload # Malformed
       /\ \A i \in Announced(dispatch.key) : dispatch.payload \in Accepted(manifest[i]))

\* A handler that was unregistered is not run again.
UnregisteredIsSilent == dispatch.by \notin unregistered
=============================================================================
