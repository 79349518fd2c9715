# A verification project for `@qualithm/device`

TLA+ models of the device SDK in `src/`, the TLC runs that check them on small
instances, and proofs, checked by TLAPS, of the properties that hold for every
instance. Paths below are relative to the repository (`src/src/device.ts` is the
file `src/device.ts` of the package). `PROJECT.json` lists, for machines, the
components, runs, mutants, the source lines of every definition, the findings,
the hazards and the theorems.

## 1. The system

The SDK runs in one Node.js process, on one thread. A `Device` claims an
identity once (HTTP exchange of a single-use claim code), stores it, and keeps
an MQTT session to the gateway through mqtt.js. A device without a terminal is
claimed by a companion app instead: a `ProvisioningServer` serves the claim on a
setup access point, may join the home network first, and hands the credential to
the application, which then calls `connect()`. On a NetworkManager host the
controllers of the SDK run `nmcli`. The command line `qualithm-device` wraps the
same calls in processes of their own that share one credential file.

| Part | State it keeps | Operations | Talks to |
| --- | --- | --- | --- |
| Device session, `device.ts` | `state`, `client`, `credential`, `hasConnectedOnce`, `commandSubscribed`, `maxEventBytes` | `connect`, `disconnect`, the listeners for connect, close, reconnect, error | store, claim client, mqtt.js, application listeners |
| Publish with retries, `device.ts` | loop variable and `msg-id` of each call | `publish` | mqtt.js, the gateway's PUBACK |
| Reconnect back-off, `backoff.ts`, `device.ts` | consecutive failures, `client.options.reconnectPeriod` | `reconnectDelay`, two listeners | the retry timer of mqtt.js |
| Capabilities and commands, `capability.ts`, `device.ts` | `manifestJson`, `declaredCapabilities`, `commandHandlers` | `declareCapabilities`, `onCommand` and its unregister function, dispatch | application handlers |
| Provisioning server, `provision-server.ts` | `serverState`, `server`, `accessPointStarted` | `start`, `stop`, the claim handler, onboarding and its restart | node:http, access point and home network controllers, store, claim client, `onProvisioned` |
| File store, `store.ts` | the credential file | `load`, `save`, `clear` | the file system |
| `startProvisioning`, `device.ts` | the Device's `state` and `credential`, and the server it made | `startProvisioning`, the `onProvisioned` it passes | Device, provisioning server, the application |
| Command line, `bin/qualithm-device.ts`, `cli/commands.ts` | the open session of a `connect` process | `claim`, `provision`, `connect`, SIGINT | claim and enrolment clients, store, Device |
| Claim client, `claim.ts` | none | one request | the platform |
| Enrolment client, `enroll.ts` | none | one request, under the stored token | the platform |
| NetworkManager controllers, `access-point.ts`, `home-network.ts` | the keyfile on disk, profiles in NetworkManager | `start`, `stop`, `join`, `forget` | nmcli, the file system |
| Memory store, CSR, CLI output, errors, types, test helpers | none that matters here | | |

What is hard about it:

* Every `await` is a point where another call, a listener or a request may run.
  Fields tested before an await are used after it (`start()`, `handleClaim()`,
  `ensureCommandSubscription()`, `disconnect()`).
* Listeners of an mqtt.js client outlive the Device's interest in it, and act on
  the Device's shared fields.
* Claim codes are used once, so a failure or restart between the exchange and
  the save matters; so do lost answers.
* Connections are lost, refused and restored at any moment; retries must go on,
  and must stop when the Device stops.
* The store must survive a loss of power between any two system calls. The
  keyfile of the home network must survive a reboot; nothing fsyncs it, so a loss
  of power may undo or tear it.
* A client that was told to end goes on for a while: a socket that opens is not
  closed, and what is unanswered on it is waited for.
* A provisioning server and a session share the shown state, the store and the
  credential in memory, and each goes its own way after a call returned.
* Two commands over one store may overlap, fail half-way or be killed.

What makes each part correct: a session only on a credential a restart would
find; no client left behind that keeps reconnecting; a shown state that is true;
one command subscription that is not forgotten; every `connect()` and
`publish()` settles; a message stored once; the claim endpoint and the access
point up and down together and never beside a session; a stored credential
handed over; a credential file that is never half written, and whose secret the
platform takes; no passphrase on disk after a failed onboarding; a manifest that
is exactly what commands are checked against. `PROJECT.json` lists each hazard at
its line with the properties that cover it, or why none does.

## 2. Modules

### `Device`: the session life cycle

An action is the code between two suspension points. `pc[c]` says at which await
the `connect()` call `c` is suspended: `loading`, `claiming`, `saving`,
`waiting` (for the first CONNACK), `accepted` / `refused` (its continuation is
released but has not run), `announcing` (manifest publish), `subscribing`. A
client bears the name of the call that opened it, and `link[c]` is its life in
mqtt.js: four values while it reconnects by itself (`Live`), and what `end()` makes
of each: `draining`, `destroyed`, `abandoned`, `overtaken` (its socket was opening,
and may still connect), `stray` (it did), `hung` (it lost its connection with a
SUBSCRIBE unanswered, and the callback of `end()` never runs). Completions of I/O require `Quiet`: promise continuations run before
the event loop takes another event. Calls of the application do not, for a
listener of the Device may make them.

| Action | Code |
| --- | --- |
| `Connect`, `LoadFound`, `LoadNothing`, `LoadFailed` | `connect()`, `provision()` up to the load |
| `ClaimAccepted`, `ClaimFailed`, `Saved`, `SaveFailed` | the exchange and the save of `provision()` |
| `OpenConnection` (part of `LoadFound`, `Saved`) | `openConnection()` up to the await, `buildClientOptions()` included |
| `Refused` | the catch of `openConnection()` |
| `Announce`, `AnnounceDone`, `SubAck`, `SubFailed` | `publishManifest()`, `ensureCommandSubscription()` |
| `OnConnect`, `OnError`, `OnClose`, `Drop`, `OnReconnect` | the listeners of `bindClientEvents()` and `waitForConnect()` |
| `OnCommand`, `OffCommand`, `DeclareCapabilities` | the calls of those names |
| `Disconnect`, `Disconnected` | `disconnect()` before and after the await of `end()` |
| `Crash` | a restart: new fields, the store and the platform stay |

`CanPublish(v)` is what stands between a manifest and mqtt.js: a client that was
not ended, and the ceiling of the gateway that `publish()` compares with. The
versions in `Oversized` exceed the ceiling a gateway may advertise; the one
declared before `connect()` may, and so may a later one.

`Sequential = TRUE` is an application that awaits each life-cycle call before it
makes the next and calls `disconnect()` before it connects again; `FALSE` lets
calls overlap at will.

`Lifecycle` is what such an application sees: the states of
`types.ts:56-61`, the one client held and its life, and whether each `connect()`
is provisioning, opening, opened or settled. `Device` implements it
(`ImplementsLifecycle`): `Session` reads the life of the client held from `link`
and `client`, `Status` maps the nine awaits of a call to those four, `Leftovers`
are the clients let go whose connection or close may still come; these late events
are actions of `Lifecycle` (`LateOpen`, `LateClose`, `EndingClose`), for an
application does see them. The awaits, the subscription, the manifest and the
handlers are stutters.

### `Publishing` and `Backoff`: retries

`Publishing` is `publish()` over a Device's clients: each call hands its packet to
mqtt.js, waits after a failed PUBACK (`backing`), and hands it over again, to the
client the Device then holds. In mqtt.js a packet is `queued` until the client is
connected; a QoS 0 call resolves when it is written, a QoS 1 call is `unacked` until
the PUBACK. `wire` is all that was ever written, and the gateway stores from it at
any later time (`Take`), whether the call is over or not; it may store a message and
still report failure. `disconnect()` waits for the QoS 1 packets of its client
(`draining`), and never comes back (`hung`) when the connection is lost before they
are answered.

`Backoff` is `reconnectDelay()` as the set of delays its random draw can give,
and `Publishing` uses it for the option that `bindReconnectBackoff()` keeps for
mqtt.js: `period` is the option, `armed` the value mqtt.js read when it armed
its timer. The order of the two close listeners is in `OnClose`. A `publish()`
waits between attempts by a timer whose length no property depends on.

`Delivery` is what a caller of `publish()` is promised: a call that is refused
at once is never stored; another is pending, resolves or rejects once, and its
message is stored at most once, from the call on, and (when it is QoS 1, of a
size that no gateway drops) before it resolves. `Publishing` implements it
(`ImplementsDelivery`) with `Status` for the calls and the gateway's `taken` for
the log; sessions, attempts and waits stutter.

### `Commands`: capabilities and dispatch

Re-declarations, registrations and commands in any order. `manifest` is the list
`manifestJson` was built from, `declared` the map that commands are validated
against. Two definitions of what a command may be stand side by side: the code's
`ValidCommandValue`, a cascade of type tests, and `Accepted`, the set of commands
that the announced declaration takes.

### `ProvisioningServer`: claims on the setup network

Actors are the calls of `start()` and `stop()` and the claim requests, each with
its own `pc`. `CloseHttp` and `StopAccessPoint` are shared by the three teardowns,
which differ in what follows (`TornDown`). `restartOnboarding()` calls `start()`,
so a request then takes the steps of a start. A listener bears the name of the
start that created it, and a credential the name of the request that claimed it.
`Overlaps` says which operations may begin while another is under way, `Failing`
which steps may fail.

What `start()` leaves, `stop()` finds and a claim hands over is in `listening`
(node's listeners), `ap` (the access point), `profile` (a stored home network)
and `handed`. `HangUp` is a companion app that leaves before the reply to a plain
claim is written: the reply then never finishes, so the completion of that claim
never runs, and the claim ends `abandoned` with its credential stored. It is a
settled state: a `stop()` or another call may follow. (The reply that accepts an
onboarding is written in the step that reads the body, so no app is gone between
the two.)

`OneClaim` is what the server promises its application: an endpoint that opens
only while nothing is stored, one credential stored, handed over once, with the
endpoint closed. `ProvisioningServer` implements it when only `stop()` overlaps
(`ImplementsOneClaim`); `open` is `listening # {}`, and every await between the
bind, the save and `onProvisioned` stutters.

### `Onboarding`: the Device and the server it starts

`Onboarding` EXTENDS `Device` and takes `ProvisioningServer` as an instance over
the same `store` and `crashes`. `StartProvisioning` is `startProvisioning()` up to
the first await of `start()`; every later step of the server is `OfServer(step)`,
which says what that step means for the Device: the catch around `start()`
(`ShownAfter`) and the `onProvisioned` it passed (`HandOver`). `OfSession` is a
step of `Device`, `Restart` one restart of both. `outstanding` is what the
application knows: it holds a server that started, was not stopped, and has not
called `onProvisioned`. The application modelled awaits each call, and connects
or disconnects only when nothing is outstanding; `Overlaps` says whether it may
call `stop()` during a claim. The Device has no claim code of its own, so each
credential is named after the request that claimed it.

### `NetworkManager`: the two nmcli controllers

One controller call at a time, as the server awaits them, each suspended at the
`nmcli` invocation or file operation `pc` names. `keyfile` is on disk, whole or
torn; `loaded` and `radio` belong to NetworkManager, which outlives the process,
loses the interface to a hotspot and by `AutoConnect` joins a loaded profile. Any
step may fail; between any two, `Crash` stops the process, `Reboot` shuts the host
down and starts it, and `PowerLoss` cuts it off. `medium` holds the contents that a
loss of power may leave, since the code writes and removes the keyfile without an
fsync; `WriteBack` is the file system that gets round to it. `cut` remembers that
the power was lost before it did.

### `Cli`: processes over one store

A process of `claim`, `provision` or `connect` is named once it is launched, and
`pc[p]` is the await its command is at, or how the process ended. A credential
carries a secret named after the process that received or generated it, and
`granted` is what the platform takes for a login. Every exchange may be refused,
or lost after the platform acted; `Killed` is any signal at any point.
`Exclusive` is an operator who waits for a `claim` or `provision` before the
next one. `hanging` is a process whose command failed while its session is open.

### `FileStore` implements `CredentialStore`

`CredentialStore` is the contract of `types.ts` as an atomic register with
failures and stops. `FileStore` is `store.ts` step by step over a file system
that keeps a cache: a name is on the medium once the directory was written back,
content once it was fsynced. The refinement is
`Contract == INSTANCE CredentialStore WITH ...`: the register is the content of
the file under the path (`Held(target)`), its durable part that of the name on
the medium; a save takes effect at its rename, a load when it opens the file (it
will read that file, whatever is renamed over it), a clear at its unlink.

Why the contract is weaker than its words: `types.ts:81` says "durable across
power loss"; without an fsync of the directory a resolved save may be undone, so
the contract promises an earlier content, whole.

### How the modules fit

| Module | Extends or instantiates | Instance for TLC | Proofs |
| --- | --- | --- | --- |
| `Device` | instance of `Lifecycle` | `MCDevice` | `DeviceProofs` |
| `ProvisioningServer` | instance of `OneClaim` | `MCProvisioningServer` | `ProvisioningServerProofs` |
| `Onboarding` | EXTENDS `Device`, instance of `ProvisioningServer` | `MCOnboarding` | `OnboardingProofs`, which EXTENDS `DeviceProofs` |
| `NetworkManager` | | `NetworkManager.cfg` | `NetworkManagerProofs` |
| `Cli` | | `Cli.cfg` | `CliProofs` |
| `FileStore` | instance of `CredentialStore` | `FileStore.cfg` | `FileStoreProofs` |
| `Publishing` | EXTENDS `Backoff`, instance of `Delivery` | `Publishing.cfg` | `PublishingProofs` |
| `Commands` | | `MCCommands` | `CommandsProofs` |

### Mutants

Definitions such as `NotRepublished`, `OneTemp` or `LastAttemptSwallowed` stand
before the definition they vary and are used by no action. Each is a plausible
slip in the code; putting it in the place of its neighbour makes TLC refute the
property `PROJECT.json` names, which shows that the property depends on the code.

## 3. Runs

| Run | Instance | What it shows |
| --- | --- | --- |
| `device` | 2 connects, 1 disconnect, 1 handler key, 2 manifests, 2 faults, 1 restart, a gateway that may refuse, a credential that lacks a gateway, a second manifest above the ceiling that a gateway may advertise; 289,522 states | `NoOrphan`, `ConnectedIsUp`, `FlagHonest`, `ManifestCurrent`, `RestartSafe`, `ClaimsUnprovisioned`, `ClosedIsFinal`, `ImplementsLifecycle`; every connect settles (`ConnectSettles`), every lost session is shown connected again (`Reconnects`) |
| `prov` | 2 starts, 1 stop at any point of a start or claim, 2 claims with two codes, every awaited step but `forget()` failing at will, an app that hangs up, 1 restart; 56,642 states | `NeverAlongside`, `HandedIsStored`, `PassphraseForgotten`, `RepliesBeforeDown`, `ProvisionedIsFinal`, `NoWaitingCircle`, `ImplementsOneClaim`, `EverythingSettles`, `FlushedIsHanded` |
| `onboarding` | 2 connects, 1 disconnect, 2 `startProvisioning`, 1 stop, 2 claims, steps failing at will, 1 network fault, 1 restart; 327,372 states | `NeverBesideSession`, `ProvisioningShown`, `OnboardedRestartSafe`, `ServingIsReal`, `ApMatchesEndpoint`, `JoinsOffSetupNetwork` |
| `network` | 2 networks and 1 that Wi-Fi cannot use, any number of calls, stops, reboots and losses of power; 13,086 states | `ForgottenIsGone`, `JoinedIsSaved` |
| `cli` | 2 claims, 2 provisions and 1 connect, writers one at a time; 284,928 states | `CredentialsWork`, `StoreMovesForward`, `CommandsEnd` |
| `publishing` | a QoS 1 and a QoS 0 publish, 2 sessions, 2 faults, 3 attempts, every draw; 310,132 states | `StoredOnce`, `ImplementsDelivery`, `WaitsBackOff`, `RetriesGoOn`, `PublishSettles` |
| `commands` | 12 declarations, valid and not, in lists up to 2, 3 registrations on 2 keys; 106,329 states | `ManifestAgrees`, `DispatchIsExact`, `UnregisteredIsSilent` |
| `file_store` | 2 saves, 1 load, 1 clear, 1 failed system call, 2 stops; 55,798 states | `NeverHalfWritten`, `ImplementsContract` |
| `device_reopened` | refuted: `ClosedIsTerminal` | finding 1 |
| `device_deaf` | refuted: `HandlersAreServed` | finding 2 |
| `prov_unflushed` | refuted: `StoredIsHanded` | finding 3 |
| `onboarding_stopped` | refuted: `NeverBesideSession` | finding 4 |

Bounds. Named constants bound only what is otherwise endless: faults, restarts,
versions of the manifest, invocations. The hazards take at most two actors that
meet (two saves, two claims, a stop and a claim) and one or two faults; two
connects let a session follow one that failed, that was closed, or that a restart
cut off. Two servers let one follow another that was stopped or whose onboarding
failed. Two declarations in a list are what a duplicate key takes; numbers 0..3
put a value on each side of, and on, both bounds of the range 1..2. In
`publishing` a base of 2, a floor of 1 and a cap of 3 make the doubled ceiling
meet the cap and the draw 0 meet the floor; three attempts have a first, a middle
and a last. Two processes of each kind that writes let either kind come between
the load and the save of another. `NetworkManager` needs no bound: its states are
finite. Where a theorem exists (section 5) the bound does not matter to its
property.

Deadlock is checked for `Device`, `Commands` and `NetworkManager`, which can
always go on (a handler can be registered and removed, a command or a call can
come). In the other modules every invocation is used once, so a run ends when
they are used up; their runs do not check deadlock, and say with
`EverythingSettles`, `PublishSettles` and `CommandsEnd` that nothing ends
half-way (`Onboarding` composes two modules whose own runs say so).

Symmetry is declared in `onboarding` alone, which has no liveness: over connects
and over starts.

Fairness is weak, and only for what the event loop and the libraries owe: pending
I/O completes one way or the other, a released continuation runs, mqtt.js closes
what it ended and re-arms its timer, node calls back, a command goes on when what
it awaits is answered. The application, the faults, the restarts, the operator,
his signals and the companion app owe nothing; `EverythingSettles` holds when no
app leaves its body unfinished, which it says itself (section 6 has the other case).
`Device` also assumes that an
opening connection is at last accepted once the bounded faults are used up, and
`Publishing` that the gateway answers a QoS 1 packet while its connection lasts.

What the instances leave out, on purpose. `prov` lets `stop()` overlap, one at a
time; overlapping starts, claims with two codes, and two stops break properties
that the documentation states (section 6), so they are not in that run. For
overlapping claims with one code `HandedIsStored` is a theorem. `onboarding`
awaits a claim before the next call, `onboarding_stopped` shows what a `stop()`
in between does. One network fault does not suffice there for a `startProvisioning()`
while a client that was ended connects late; that it serves nothing then is part of
`EndpointNeverBesideSession`. `Exclusive` is needed for `StoreMovesForward` only:
`CredentialsWork` is a theorem without it.

## 4. What stands outside `src/`

The models rest on these readings of libraries and platforms; each is marked
external in the map, or is said in a comment where it is used.

* mqtt.js: a live client reconnects by itself after a close, with the
  `reconnectPeriod` it reads in its own close listener (none for 0); it renews
  the subscriptions it holds; `end(true)` destroys the socket, whose close event
  still comes; `end(false)` lets a connected client drain; on one that is not
  connected it leaves the socket alone, so a CONNACK may still come, and emits
  `connect`; the callback of `end()` comes after the outstanding QoS 1 publishes and
  SUBSCRIBEs were answered, and never when the connection is lost before; a second
  `end()` calls back at once; what is published or subscribed on an ended client
  fails at once. A QoS 1 packet is kept and sent again on the next connection of the
  same client, unless it was ended; a QoS 0 packet is queued until it can be
  written, and its callback comes with the write. In `Publishing` the CONNACK and the
  `connect` event are one step and what was kept is written after it (mqtt.js writes
  it between the two); back-pressure of the socket is left out.
* Node: promise continuations run before the next event; `server.close()` stops
  listening at once and calls back when the connections have ended; the callback
  of `res.end()` is a `finish` listener, which does not run when the connection
  was gone before the reply was written; one listener holds a port; a process
  ends by itself when nothing keeps its event loop alive, and an open MQTT
  session does; a signal without a listener ends it at once.
* POSIX: rename replaces a name atomically, an open file stays readable, fsync
  of a file puts its content, not its name, on the medium; without one a loss of
  power may leave an earlier content, or a torn one.
* NetworkManager: it keeps a profile it loaded, and connects to it by itself when
  the interface is free (`autoconnect=true` is in the keyfile); deleting a loaded
  profile deletes its keyfile; at boot it loads the keyfiles that parse; a hotspot
  takes the interface from what ran on it. Profiles go by the names the code uses.
* The platform honours a claim code once, stores a message id once, and takes a
  secret for a login from the moment it issued it.
* The application of `Onboarding`: it awaits its calls, and connects only when it
  holds no server. That of `Publishing` awaits `connect()` and `disconnect()`.

## 5. Proofs

All theorems hold for any values of the constants that satisfy the `ASSUME`s of
the modules (sentinels are not members of the sets they extend, bounds are
natural numbers, sets of calls do not meet) and the condition each names. No
finiteness of the sets is needed.

* `DeviceProofs`. `TypeCorrect` is inductive by itself. `SessionsAreRestartSafe`
  (any application): `RestartSafe` is not inductive, since a step of `Saved`
  stores `held[c]` over whatever is there; `ClaimInv` adds that a call that saves
  is the only one, that the code is then spent (so no other claim can succeed) and
  that nothing is stored. `NoClientIsOrphaned`, `ConnectedMeansUp`,
  `SubscribedFlagIsHonest` and `ClosedStaysClosed` (sequential application) come
  from `SessionInv`: one life-cycle call at a time, which owns the client from
  the moment it opened it; a client nobody ends is live; unanswered SUBSCRIBEs
  are on the client held; a closed Device has no live client. Without these parts
  a late event of an older client could come with any state. What a client that was
  ended while it opened may still show is said in the properties themselves. The step is split by
  action in `SessionCallStep`, `SessionClientStep` and `SessionRestStep`.
  Beside it `ClaimsOnlyUnprovisioned` needs nothing more, and
  `ManifestStaysCurrent` needs `ManifestInv`: a client that drains, or may yet, is
  the one `disconnect()` ends, so an older manifest it still delivers comes while the
  Device is left without another; and a client that was never connected has its `connect()` call
  waiting, which publishes after the CONNACK what the listener does not.
  `AwaitedEventsCanCome` is the part of `ConnectSettles` that needs no fairness:
  no call waits for an event that cannot come (`NobodyIsStranded`), for a waiting
  `connect()` has the client the Device holds and a `disconnect()` the one it
  ended, which may hang. It adds to `SessionInv` that a call awaits a SUBSCRIBE exactly while it is
  unanswered, and has no client before it opens (`CallsInv`).
  `DeviceImplementsLifecycle` takes the same invariant (`LifeInv`) through every
  action: one lemma per group, after lemmas that say what a move of one call is to
  `Status` and what leaves all of it unchanged.
* `ProvisioningServerProofs`. `TypeCorrect`. `HandedIsStoredForOneCode`, however
  starts, stops and claims overlap: `ClaimInv` says that the request that saves
  holds the one answer the platform gave for the code. When only `stop()`
  overlaps other calls, `NeverServedAlongside`, `HandedIsStoredInOrder` (for any
  codes) and `ProvisionedStays` come from `OrderlyInv`: at most one start or
  claim is under way, the listener is the one the server holds, a start goes on
  only while nothing is stored, and once a request let its listener go no other
  takes its place. `RepliesGoBeforeTheDrop` needs one `stop()` as well
  (`OneStop`; with two TLC refutes `RepliesBeforeDown`, section 6): each open
  connection is one of the listener the server holds with no `stop()` under way,
  or one a `stop()` waits for (`RepliesInv`). `ServerImplementsOneClaim` adds `OneClaimInv`:
  a claim under way finds nothing stored, and while the server is held a stored
  credential is one about to be replied.
  Under any overlap: `PassphraseNeverLeftBehind`, when `forget()` does not fail;
  `TeardownsNeverWaitInCircles`, that no teardown waits, through the connections
  of the listener it closed, for a request that itself waits for a teardown
  (`HoldInv`: a request that tears down has let its connection go); and
  `StoredCredentialIsNeverDropped`, that a stored credential was
  handed over, or its request still replies or tears down, or reported that the
  access point stayed up, or was abandoned by its app, or the process restarted. The last two are the parts of `EverythingSettles` and
  `FlushedIsHanded` that need no fairness.
* `OnboardingProofs`, when nothing overlaps a claim (`Overlaps = {}`):
  `EndpointNeverBesideSession`, `ServingIsShown`, `OnboardedIsRestartSafe` and
  `JoinedOffSetup`. None is inductive, for none says what a step still under way
  will do. `OnboardingInv` does, in three groups: of the server alone
  (`ServerInv`: one actor, in a form that fits its kind; the listener, the flag
  and the access point up and down together; claims only while nothing is
  stored); of the application (`HeldWhileServing`: without a server to hold,
  none serves or makes a claim; `SessionAlone`: a session that is under way or
  live only beside no server); and of what is shown (`ShownInStep`). The session
  part is `SessionInv` of `Device`, reused by its step lemma. A step of the server
  is reduced to what it may do to the rest (`Moves`), and a step of the session
  likewise (`SessionMoves`), so that neither half is taken apart twice.
  `ServingMeansServing` and `ApLivesWithEndpoint` hold when lowering the access
  point does not fail either (`APLowers`, as in the run; section 6 says what
  `ap.stop()` failing does). They need `ServingInStep`: an access point that is
  up is on record, about to be lowered, or left by an earlier process; and the
  server's state trails its listener only while a stop, or an answered claim,
  tears down.
* `NetworkManagerProofs`. `ForgetLeavesNothing`, `JoinSurvivesReboots` and
  `OnlyUsableNetworks` from `DiskInv`: each await belongs to its call, and the
  keyfile and the loaded profile follow the steps of `join()` in that order. A boot
  finds one of the contents on the medium; once that is written back it is the
  keyfile alone, which is why the first two hold through a loss of power then.
* `CliProofs`. `CredentialsAlwaysWork`, for any number of processes that overlap
  and are killed: a credential held by a process that is about to save or connect
  is already granted. `TheStoreMovesForward` (`Exclusive`) from `WriterInv`: of
  two writers one is not under way, so what `provision` replaces is what it loaded.
* `FileStoreProofs`. `CredentialIsWhole` from `StoreInv`: a save holds its
  credential whole from the write on, fsynced from the sync on, and no name
  points to its file before the rename (`WholeBeforeRename`); a load answers with
  the file it opened (`ReadWhatOpened`). `FileStoreImplements` maps each step:
  writes, syncs and reads stutter, open and rename and unlink take effect, stops
  map to stops, and a loss of power leaves exactly the durable register because
  the file named on the medium is fsynced.
* `PublishingProofs`. `DelaysAreBounded` about `Backoff`; `RetryInvariant`, and
  from it `MessagesAreStoredOnce` and `WaitsFollowTheFailures` (no failure is counted
  against a connection that is up, so the wait after its loss is a first one).
  `PublishesAreServed`: a packet is queued on a client that is up, opening or about
  to retry, or was written on a connection that lasts, or else `disconnect()` took
  its client away; a publish that backs off has an attempt left; and a
  `disconnect()` that came back leaves no QoS 1 publish unanswered (`ServedInv`).
  `PublishingImplements` maps each step to `Delivery`: sessions, attempts and waits
  stutter, the gateway stores, and a write of QoS 0, a PUBACK or a last attempt
  settles the call.
* `CommandsProofs`. `BuiltAgrees` is the lemma about the operators: a list that
  `Builds` accepts and the map made from it agree, since its keys are distinct.
  `ManifestAlwaysAgrees` follows for every step, failed declarations included,
  and `DispatchAlwaysExact` from it and `ValidationIsExact`.
  `UnregisteredStaysSilent` from `HandlersInForce`: what is in the map is the
  registration of its key, and was not unregistered.

The types of every module, the inductive invariants, `OnlyUsable` and the
`NobodyIsStranded` of two modules are proved; no run repeats them.

Only model-checked: liveness (`ConnectSettles`, `Reconnects`, `RetriesGoOn`,
`PublishSettles`, `EverythingSettles`, `FlushedIsHanded`, `CommandsEnd`), which
the prover cannot treat under fairness. For `ConnectSettles`, `PublishSettles`,
`EverythingSettles` and `FlushedIsHanded` the proofs say that what is waited for
can come; the runs say that it comes.

## 6. Findings and known disagreements

Four disagreements have a run each.

1. `device_reopened` (`device.ts:462`): the CONNACK of a client that
   `disconnect()` ended while it was opening shows `connected` on a closed Device.
2. `device_deaf` (`device.ts:533`): a connection lost between the manifest and
   the subscription of `connect()` leaves the handlers without `command/#`.
3. `prov_unflushed` (`provision-server.ts:388`): a companion app gone before the
   reply leaves a stored credential that `onProvisioned` never gets.
4. `onboarding_stopped` (`provision-server.ts:451`): an onboarding that fails
   after `stop()` resolved calls `start()` all the same; the claim endpoint is
   then up beside the session the application opened.

The following were met while modelling, by running the named variations of the
models; they have no run of their own.

| Where | What the code does | What is said |
| --- | --- | --- |
| `device.ts:475` | after a failed first connect the close event of the ended client shows `reconnecting` on a Device that has no client and went back to `idle`; `startProvisioning()` then refuses | `types.ts:60`, "a dropped link transitions to `reconnecting` until the next `connected`" |
| `device.ts:375` | `disconnect()` during an attempt to reconnect does not close the opening socket: it may connect, and stays open with nobody to end it until the gateway drops it | `device.ts:367`, "Gracefully close the session" |
| `device.ts:375` | `disconnect()` never resolves when the connection is lost, or already was, with a SUBSCRIBE or a QoS 1 publish unanswered, and that `publish()` never settles; nor does a QoS 0 `publish()` queued on the client | `device.ts:300` and `:367` name no such end |
| `device.ts:564-573` | a CONNACK of the client that was ended, during a new `connect()`, shows `connected` before the new session is up | `types.ts:56-61` |
| `device.ts:528` | a manifest above the ceiling makes `connect()` reject with its session up, and a later one never reaches the platform while the Device stays `connected` | `device.ts:465`, "A reconnect re-declares the manifest" |
| `device.ts:475` | a late close of an earlier client shows `reconnecting` while the next session is up (overlapping calls) | `types.ts:60` |
| `device.ts:409` | `buildClientOptions()` throws after `connecting` was shown; `connect()` rejects and the state stays | `types.ts:56-61` |
| `device.ts:423-424` | `connect()` rejects when the manifest or subscription fails, and leaves its session up | `device.ts:415` cares for the first connect only |
| `device.ts:533-537` | two handlers in a row subscribe `command/#` twice | `device.ts:205`, "subscribes `command/#` once" |
| `device.ts:403` | a restart between claim and save presents a spent code | README, "a power cycle never re-claims" |
| `device.ts:386` | two overlapping `connect()` calls both claim | README, "Idempotent `connect()`" |
| `device.ts:418` | a `disconnect()` during a failing first connect ends in `idle` | `types.ts:61`, "`closed` is terminal" |
| `device.ts:313` | the ceiling is not refreshed on a reconnect, nor compared on a retry | `device.ts:302`, "caught before the bytes go on the wire" |
| `device.ts:258` | a second `startProvisioning()` while one serves is let through; when it cannot bind it shows `idle` and drops the access point of the first | `device.ts:247`, "While the server is serving, the device's state is `provisioning`" |
| `device.ts:258` | nothing keeps an application from `connect()` while a server is up, and a `stop()` leaves the state at `provisioning` | `device.ts:244`, "never alongside one" |
| `store.ts:48` | the directory is never fsynced | `types.ts:81`, "durable across power loss" |
| `provision-server.ts:238-270` | overlapping starts: one that cannot bind drops the access point of the one that serves; a start during an onboarding serves beside `onProvisioned` | `provision-server.ts:33-36`, `:9-10` |
| `provision-server.ts:283` | `stop()` during `start()` resolves, and the start then serves | `:279`, "Stop serving" |
| `provision-server.ts:283` | `stop()`, and the teardown of another claim, wait without bound for a claim whose body never comes: `server.close()` waits for its connection, and ends the checking of request timeouts | `:279` |
| `provision-server.ts:285` | a failing `accessPoint.stop()` leaves the state `serving` | `:279` |
| `provision-server.ts:459-466` | two overlapping `stop()` calls: the second lowers the access point under a reply the first waits for | `:396`, "always receives the identity before the AP drops" |
| `provision-server.ts:324` | two overlapping claims with two codes: `onProvisioned` gets a credential that is no longer stored | `:5-10` |
| `provision-server.ts:352` | a Wi-Fi claim whose body arrives late turns `provisioned` into `onboarding` | `:324` |
| `provision-server.ts:421` | two overlapping onboardings: one joins while the access point still goes down | `:55-56` |
| `provision-server.ts:421` | a restart during an onboarding leaves the passphrase on disk | `:411`, "never outlives a failed attempt" |
| `access-point.ts:48` | the hotspot is created without a connection name, the one deleted is `qualithm-setup` | `access-point.ts:17`, "The connection profile name the hotspot is created under" |
| `access-point.ts:79-86` | any failure of the delete is swallowed, not only that of a profile that is gone: `stop()` resolves with the access point up | `provision-server.ts:55`, "The server joins only after the setup access point is down" |
| `home-network.ts:143` | a failing delete of a loaded profile is swallowed: `forget()` resolves with the host on the network | `provision-server.ts:61`, "Leave the home network" |
| `home-network.ts:103-106` | the keyfile is written and removed without an fsync: a loss of power after `join()` or `forget()` resolved may leave the earlier keyfile, or a torn one | `home-network.ts:8-9`, "The profile is saved, so the device reconnects after a reboot"; `:117-118`, "a failed onboarding never leaves the passphrase on disk" |
| `cli/commands.ts:56` | a `claim` and a `provision` at once: the store ends with the identity of whichever saved last | `cli/commands.ts:40`, "Upgrade the stored token credential" |
| `bin/qualithm-device.ts:204` | a subscribe or publish that fails leaves its session open, and the process does not end | `:205`, "A one-shot publish smoke test exits immediately" |

## 7. Not modelled

* The memory store (each operation is one assignment), the encoding of a CSR,
  the CLI's output, errors, exports and the test helpers: no state that
  interleaves. Benchmarks, lint configuration, the release smoke test and the
  bundled CI action are not part of the SDK.
* Parsing of platform answers and of request bodies beyond valid and not; GET
  requests and wrong methods on the claim endpoint, which change no state; a
  server without an access point or home network controller.
* Payload sizes beyond over and under the ceiling; a `reconnectPeriodMs` of 0;
  listeners of the application that throw. `WaitsBackOff` compares the wait with the
  set of draws for its number of failures; the sets of higher numbers contain those
  of lower ones, so a wait that is too long is detected, one that is too short is not.
* In the runs, a second `disconnect()` (the model has it, and the proofs are for any
  number): it alone reaches the end of a client that waits to retry with a SUBSCRIBE
  queued, and the drain of one that connects late.
* The failure counter of a client after it was ended, which nothing reads.
* A Device that has a claim code and also starts provisioning; a second server
  while one is up; an application of `Onboarding` that does not keep to what
  `outstanding` asks (section 6 says what then happens).
* A loss of power as seen by `connect()`: `Device` takes a save to be atomic and
  durable, which `FileStore` shows but for the directory.

## 8. Plan

Done: all modules of section 2 and their proof modules.

What would add most next:

1. `ProvisioningServer` over `NetworkManager`: the one-step controllers of the
   server refined by the calls of `nmcli`, failures between them included.
2. The Device's store as an instance of `CredentialStore`, so that a loss of
   power reaches `connect()`.
3. `Onboarding` with a claim code, and with a second server while one serves.
